---------------------------- MODULE Spec2Model ----------------------------
(***************************************************************************)
(* The AI Assistant widget of the Plain-Language course package: the       *)
(* course index (buildFromCourse), the query answerer (answerFromCourse)   *)
(* and the page lifecycle that connects them (init, the course fetch, the  *)
(* send handler).                                                          *)
(*                                                                         *)
(* Text is a sequence of one-character strings, so that tokenizing,        *)
(* matching and cleaning are computed character by character as the        *)
(* JavaScript computes them.  The two non-ASCII characters of the source,  *)
(* the bullet U+2022 and the ellipsis U+2026, are the elements Bullet and  *)
(* Ellipsis.  JavaScript values of the course tree are tagged records.     *)
(*                                                                         *)
(* A replacement with a regular expression is written position by          *)
(* position: which characters a match drops, keeps or follows with an      *)
(* insertion.  Only the match-to-match scans are recursive.                *)
(***************************************************************************)
EXTENDS Integers, Sequences, FiniteSets, TLC

\* ------------------------------------------------------------------------
\* Characters and strings
\* ------------------------------------------------------------------------

Bullet == "BULLET"

Ellipsis == "ELLIPSIS"

LowerSet == {"a","b","c","d","e","f","g","h","i","j","k","l","m","n","o","p","q","r","s","t","u","v","w","x","y","z"}

UpperSet == {"A","B","C","D","E","F","G","H","I","J","K","L","M","N","O","P","Q","R","S","T","U","V","W","X","Y","Z"}

DigitSet == {"0","1","2","3","4","5","6","7","8","9"}

LowerOf == [A |-> "a", B |-> "b", C |-> "c", D |-> "d", E |-> "e", F |-> "f", G |-> "g", H |-> "h", I |-> "i", J |-> "j", K |-> "k", L |-> "l", M |-> "m", N |-> "n", O |-> "o", P |-> "p", Q |-> "q", R |-> "r", S |-> "s", T |-> "t", U |-> "u", V |-> "v", W |-> "w", X |-> "x", Y |-> "y", Z |-> "z"]

UpperOf == [a |-> "A", b |-> "B", c |-> "C", d |-> "D", e |-> "E", f |-> "F", g |-> "G", h |-> "H", i |-> "I", j |-> "J", k |-> "K", l |-> "L", m |-> "M", n |-> "N", o |-> "O", p |-> "P", q |-> "Q", r |-> "R", s |-> "S", t |-> "T", u |-> "U", v |-> "V", w |-> "W", x |-> "X", y |-> "Y", z |-> "Z"]

\* [a-z]
IsLower(c) == c \in LowerSet

\* [A-Z]
IsUpper(c) == c \in UpperSet

\* [A-Za-z]
IsLetter(c) == c \in LowerSet \/ c \in UpperSet

\* \w
IsWord(c) == c \in LowerSet \/ c \in UpperSet \/ c \in DigitSet \/ c = "_"

\* \s (the whitespace the inputs can hold)
IsSpace(c) == c = " " \/ c = "\n" \/ c = "\t"

\* [.?!]
IsTerminal(c) == c \in {".", "?", "!"}

ToLowerChar(c) == IF c \in UpperSet THEN LowerOf[c] ELSE c

ToUpperChar(c) == IF c \in LowerSet THEN UpperOf[c] ELSE c

\* String.prototype.toLowerCase
toLowerCase(s) == [i \in 1..Len(s) |-> ToLowerChar(s[i])]

Min(S) == CHOOSE x \in S : \A y \in S : x <= y

Max(S) == CHOOSE x \in S : \A y \in S : x >= y

\* the least element of S, or none when S is empty
MinOr(S, none) == IF S = {} THEN none ELSE Min(S)

\* the greatest element of S, or none when S is empty
MaxOr(S, none) == IF S = {} THEN none ELSE Max(S)

\* Body with its parameter bound to value, which is evaluated once: a const
\* or var declaration followed by the statements that read it
Let(value, Body(_)) == Body(value)

\* the positions 1..Len(s), in order
Idx(s) == [i \in 1..Len(s) |-> i]

\* the first position in i..Len(s) whose character is in (in = TRUE) or is
\* not in (in = FALSE) the class cls; Len(s) + 1 when there is none
Scan(s, i, cls(_), in) ==
  MinOr({j \in i..Len(s) : cls(s[j]) = in}, Len(s) + 1)

\* the last position in 1..i whose character is not in the class; 0 when
\* there is none
ScanBack(s, i, cls(_)) ==
  MaxOr({j \in 1..i : ~cls(s[j])}, 0)

\* the position after the run of whitespace that starts at i
SkipSpaces(s, i) == Scan(s, i, IsSpace, FALSE)

\* the first position >= i of s that holds c, or 0
IndexFrom(s, c, i) ==
  MinOr({j \in i..Len(s) : s[j] = c}, 0)

\* the concatenation of the sequences a[lo..hi]
RECURSIVE FlattenRange(_, _, _)
FlattenRange(a, lo, hi) ==
  IF lo > hi THEN <<>>
  ELSE IF lo = hi THEN a[lo]
  ELSE FlattenRange(a, lo, (lo + hi) \div 2) \o FlattenRange(a, (lo + hi) \div 2 + 1, hi)

Flatten(a) == FlattenRange(a, 1, Len(a))

\* s.slice(a, b) for 0 <= a, b: the characters at 0-based positions a..b-1
Slice(s, a, b) == SubSeq(s, a + 1, IF b > Len(s) THEN Len(s) ELSE b)

\* does the literal w occur in s at position i
LitAt(s, i, w) == /\ i >= 1
                  /\ i + Len(w) - 1 <= Len(s)
                  /\ \A k \in 1..Len(w) : s[i + k - 1] = w[k]

\* does w occur in s at position i, letter case ignored
LitAtCI(s, i, w) == /\ i >= 1
                    /\ i + Len(w) - 1 <= Len(s)
                    /\ \A k \in 1..Len(w) : ToLowerChar(s[i + k - 1]) = ToLowerChar(w[k])

\* s.indexOf(w) >= 0
Includes(s, w) == \E i \in 1..(Len(s) - Len(w) + 1) : LitAt(s, i, w)

\* s.replace(/\s+/g, ' '): every run of whitespace becomes one space
CollapseWs(s) ==
  Let(SelectSeq(Idx(s), LAMBDA i : ~(IsSpace(s[i]) /\ i > 1 /\ IsSpace(s[i - 1]))),
      LAMBDA kept : [k \in 1..Len(kept) |-> IF IsSpace(s[kept[k]]) THEN " " ELSE s[kept[k]]])

\* s.replace(/\s+$/, '')
TrimRight(s) == SubSeq(s, 1, ScanBack(s, Len(s), IsSpace))

\* String.prototype.trim
Trim(s) == SubSeq(s, SkipSpaces(s, 1), ScanBack(s, Len(s), IsSpace))

\* s.split(c) for a one-character separator c
SplitOn(s, c) ==
  Let(SelectSeq(Idx(s), LAMBDA i : s[i] = c),
      LAMBDA at : [k \in 1..(Len(at) + 1) |->
                     SubSeq(s, IF k = 1 THEN 1 ELSE at[k - 1] + 1,
                               IF k = Len(at) + 1 THEN Len(s) ELSE at[k] - 1)])

\* a.join(sep)
Join(a, sep) ==
  Flatten([k \in 1..Len(a) |-> IF k = 1 THEN a[k] ELSE sep \o a[k]])

\* ------------------------------------------------------------------------
\* Regular expressions that only test.  A pattern is a sequence of atoms: a
\* one-character string matches itself, Sp is \s+ and Wb is \b.  Patterns
\* of /i expressions are written in lower case and matched against the
\* lower-cased subject.
\* ------------------------------------------------------------------------

Sp == "\\s+"

Wb == "\\b"

\* \b between the characters at positions i-1 and i
BoundaryAt(s, i) ==
  (i > 1 /\ i - 1 <= Len(s) /\ IsWord(s[i - 1])) # (i >= 1 /\ i <= Len(s) /\ IsWord(s[i]))

\* The position just after a match of atoms j.. of p starting at position i
\* of s, or 0 when there is none.  \s+ is greedy; every \s+ of the source is
\* followed by a non-space atom, so no backtracking is needed.
RECURSIVE MatchAt(_, _, _, _)
MatchAt(s, i, p, j) ==
  IF j > Len(p) THEN i
  ELSE IF p[j] = Wb
       THEN IF BoundaryAt(s, i) THEN MatchAt(s, i, p, j + 1) ELSE 0
  ELSE IF p[j] = Sp
       THEN IF i <= Len(s) /\ IsSpace(s[i])
            THEN MatchAt(s, SkipSpaces(s, i), p, j + 1) ELSE 0
  ELSE IF i <= Len(s) /\ s[i] = p[j] THEN MatchAt(s, i + 1, p, j + 1) ELSE 0

\* RegExp.prototype.test for a pattern without alternation
Test(s, p) == \E i \in 1..(Len(s) + 1) : MatchAt(s, i, p, 1) # 0

\* /a|b|.../.test(s)
TestAny(s, ps) == \E p \in ps : Test(s, p)

\* ------------------------------------------------------------------------
\* JavaScript values of the course tree
\* ------------------------------------------------------------------------

Undef == [t |-> "undefined"]

Null == [t |-> "null"]

Str(s) == [t |-> "string", s |-> s]

Num(n) == [t |-> "number", n |-> n]

Bool(b) == [t |-> "boolean", b |-> b]

Arr(a) == [t |-> "array", a |-> a]

Obj(f) == [t |-> "object", f |-> f]

\* ToBoolean
Truthy(v) ==
  CASE v.t = "undefined" -> FALSE
    [] v.t = "null"      -> FALSE
    [] v.t = "string"    -> v.s # <<>>
    [] v.t = "number"    -> v.n # 0
    [] v.t = "boolean"   -> v.b
    [] OTHER             -> TRUE

\* null and undefined: reading a property of either throws a TypeError
Nullish(v) == v.t = "undefined" \/ v.t = "null"

\* o.k for a value o that is not nullish; a missing property is undefined
Get(o, k) == IF o.t = "object" /\ k \in DOMAIN o.f THEN o.f[k] ELSE Undef

\* Array.isArray
IsArray(v) == v.t = "array"

\* a || ''
OrEmpty(v) == IF Truthy(v) THEN v ELSE Str(<<>>)

\* ------------------------------------------------------------------------
\* stripHtml, tokenize, scoreMatch
\* ------------------------------------------------------------------------

\* Character references the HTML parser decodes; &nbsp; becomes a
\* whitespace character, which the \s+ of stripHtml then collapses.
Entities == << [name |-> <<"&","n","b","s","p",";">>, to |-> " "], [name |-> <<"&","a","m","p",";">>, to |-> "&"] >>

\* is position i inside a tag: after a < that a letter, /, ! or ? follows,
\* with no > in between (the tag's own > included)
InTag(s, i) ==
  \E j \in (MaxOr({k \in 1..(i - 1) : s[k] = ">"}, 0) + 1)..i :
     /\ s[j] = "<"
     /\ j < Len(s)
     /\ (IsLetter(s[j + 1]) \/ s[j + 1] \in {"/", "!", "?"})

\* one of the hits, or <<0, 0>> when there is none
AnyHit(hits) == IF hits = {} THEN <<0, 0>> ELSE CHOOSE h \in hits : TRUE

\* the character reference that covers position i from its start j <= i,
\* as <<j, entity>>, or <<0, 0>>
EntityOver(s, i) ==
  AnyHit({h \in UNION {{<<j, e>> : j \in (i - Len(Entities[e].name) + 1)..i} :
                         e \in 1..Len(Entities)} :
            LitAt(s, h[1], Entities[h[2]].name) /\ ~InTag(s, h[1])})

\* the character position i of s contributes to the text: its own, or the
\* character of the reference that starts there
Decoded(s, i, over) == IF over[1] = 0 THEN s[i] ELSE Entities[over[2]].to

\* div.innerHTML = html; div.textContent: the tags are dropped (a tag the
\* input never closes is dropped to the end), character references decoded
textContent(s) ==
  Let(SelectSeq(Idx(s), LAMBDA i : ~InTag(s, i) /\ EntityOver(s, i)[1] \in {0, i}),
      LAMBDA kept : [k \in 1..Len(kept) |-> Decoded(s, kept[k], EntityOver(s, kept[k]))])

stripHtml(html) ==
  IF ~Truthy(html) \/ html.t # "string" THEN <<>>
  ELSE Trim(CollapseWs(textContent(html.s)))

\* t.replace(/[^\w\s]/g, ' ')
ReplaceNonWord(s) ==
  [i \in 1..Len(s) |-> IF IsWord(s[i]) \/ IsSpace(s[i]) THEN s[i] ELSE " "]

\* s.split(/\s+/): the pieces between the runs of whitespace, the empty
\* pieces before a leading run and after a trailing run included
SplitWs(s) ==
  Let(SelectSeq(Idx(s), LAMBDA i : IsSpace(s[i]) /\ (i = 1 \/ ~IsSpace(s[i - 1]))),
      LAMBDA first :
  Let(SelectSeq(Idx(s), LAMBDA i : IsSpace(s[i]) /\ (i = Len(s) \/ ~IsSpace(s[i + 1]))),
      LAMBDA last :
        [k \in 1..(Len(first) + 1) |->
           SubSeq(s, IF k = 1 THEN 1 ELSE last[k - 1] + 1,
                     IF k = Len(first) + 1 THEN Len(s) ELSE first[k] - 1)]))

\* a.filter(Boolean) for an array of strings
FilterBoolean(a) == SelectSeq(a, LAMBDA x : x # <<>>)

\* A variant of tokenize that keeps the case of the letters.
tokenizeKeepCase(t) == FilterBoolean(SplitWs(ReplaceNonWord(t)))

tokenize(t) == FilterBoolean(SplitWs(ReplaceNonWord(toLowerCase(t))))

\* Rational numbers, for the scores: [num, den] with den > 0
Rat(n, d) == [num |-> n, den |-> d]

RatAdd(x, y) == Rat(x.num * y.den + y.num * x.den, x.den * y.den)

RatGE(x, y) == x.num * y.den >= y.num * x.den

\* A variant of RatGT that also holds for equal numbers.  With it the sort
\* puts the later of two equal scores first.
RatNotLess(x, y) == x.num * y.den >= y.num * x.den

RatGT(x, y) == x.num * y.den > y.num * x.den

Range(s) == {s[i] : i \in 1..Len(s)}

\* A variant of credit in which a word that the query token contains also
\* gives the half credit.
creditEitherWay(q, words) ==
  IF q \in Range(words) THEN 2
  ELSE IF \E k \in 1..Len(words) :
            Len(words[k]) >= 3 /\ (Includes(words[k], q) \/ Includes(q, words[k]))
       THEN 1 ELSE 0

\* the credit of one query token, in halves: n++ is 2, n += 0.5 is 1
credit(q, words) ==
  IF q \in Range(words) THEN 2
  ELSE IF \E k \in 1..Len(words) : Len(words[k]) >= 3 /\ Includes(words[k], q)
       THEN 1 ELSE 0

\* the loop of scoreMatch over the query tokens i..
RECURSIVE SumCredit(_, _, _)
SumCredit(queryTokens, words, i) ==
  IF i > Len(queryTokens) THEN 0
  ELSE credit(queryTokens[i], words) + SumCredit(queryTokens, words, i + 1)

\* A variant of scoreMatch that returns n, not n / queryTokens.length.
scoreMatchUndivided(queryTokens, text) ==
  Rat(SumCredit(queryTokens, tokenize(text), 1), 2)

scoreMatch(queryTokens, text) ==
  IF Len(queryTokens) # 0
  THEN Rat(SumCredit(queryTokens, tokenize(text), 1), 2 * Len(queryTokens))
  ELSE Rat(0, 1)

\* ------------------------------------------------------------------------
\* Course index and table of contents
\* ------------------------------------------------------------------------

\* One element of courseIndex.  correct is the answer's own value, and
\* undefined for the other types, which have no such property.
Entry(text, ctx, type, correct) ==
  [text |-> text, lessonId |-> ctx.lessonId, blockId |-> ctx.blockId,
   lessonTitle |-> ctx.lessonTitle, type |-> type, correct |-> correct]

\* The outcome of a stretch of the build: what acc holds, and whether a
\* TypeError ended the stretch.  acc is the array courseIndex itself, so what
\* was pushed before a throw stays pushed.
Ran(acc) == [acc |-> acc, threw |-> FALSE]

Threw(acc) == [acc |-> acc, threw |-> TRUE]

\* if (o.k) acc.push({ text: stripHtml(o.k), ..., type })
PushField(o, k, ctx, type, acc) ==
  IF Truthy(Get(o, k)) THEN Append(acc, Entry(stripHtml(Get(o, k)), ctx, type, Undef))
  ELSE acc

IsQuiz(o) ==
  \/ Truthy(Get(o, "answers"))
  \/ Get(o, "type") = Str(<<"k","n","o","w","l","e","d","g","e","C","h","e","c","k">>)
  \/ Get(o, "type") = Str(<<"M","U","L","T","I","P","L","E","_","R","E","S","P","O","N","S","E">>)

\* for (const a of answers) if (a.title) acc.push(...), over an array
RECURSIVE pushAnswers(_, _, _, _)
pushAnswers(as, i, ctx, acc) ==
  IF i > Len(as) THEN Ran(acc)
  ELSE IF Nullish(as[i]) THEN Threw(acc)
  ELSE pushAnswers(as, i + 1, ctx,
         IF Truthy(Get(as[i], "title"))
         THEN Append(acc, Entry(stripHtml(Get(as[i], "title")), ctx, "answer",
                                Get(as[i], "correct")))
         ELSE acc)

\* for (const a of o.answers): an array is iterated, a string is iterated
\* character by character (a character has no title), anything else is not
\* iterable
forOfAnswers(answers, ctx, acc) ==
  CASE answers.t = "array"  -> pushAnswers(answers.a, 1, ctx, acc)
    [] answers.t = "string" -> Ran(acc)
    [] OTHER                -> Threw(acc)

RECURSIVE walk(_, _, _)
RECURSIVE walkItems(_, _, _, _)
RECURSIVE walkSlides(_, _, _, _)


\* if (o.title && (o.answers || ...)) acc.push({ ..., type: 'question' })
pushQuestion(o, ctx, acc) ==
  IF Truthy(Get(o, "title")) /\ IsQuiz(o)
  THEN Append(acc, Entry(stripHtml(Get(o, "title")), ctx, "question", Undef))
  ELSE acc

\* if (o.answers) for (const a of o.answers) ...
walkAnswers(o, ctx, acc) ==
  IF Truthy(Get(o, "answers")) THEN forOfAnswers(Get(o, "answers"), ctx, acc) ELSE Ran(acc)

\* if (Array.isArray(o.slides)) o.slides.forEach(...)
walkSlidesOf(o, ctx, w) ==
  IF ~w.threw /\ IsArray(Get(o, "slides")) THEN walkSlides(Get(o, "slides").a, 1, ctx, w) ELSE w

\* if (Array.isArray(o.items)) o.items.forEach(walk)
walkItemsOf(o, ctx, w) ==
  IF ~w.threw /\ IsArray(Get(o, "items")) THEN walkItems(Get(o, "items").a, 1, ctx, w) ELSE w

walk(o, ctx, w) ==
  IF w.threw \/ ~Truthy(o) THEN w
  ELSE walkSlidesOf(o, ctx,
         walkItemsOf(o, ctx,
           walkAnswers(o, ctx,
             pushQuestion(o, ctx,
               PushField(o, "caption", ctx, "caption",
                 PushField(o, "paragraph", ctx, "paragraph",
                   PushField(o, "heading", ctx, "heading", w.acc)))))))

\* items.forEach(walk)
walkItems(items, i, ctx, w) ==
  IF w.threw \/ i > Len(items) THEN w
  ELSE walkItems(items, i + 1, ctx, walk(items[i], ctx, w))

\* slides.forEach(s => { if (s.description) acc.push(...); walk(s); })
walkSlides(slides, i, ctx, w) ==
  IF w.threw \/ i > Len(slides) THEN w
  ELSE IF Nullish(slides[i]) THEN Threw(w.acc)
  ELSE walkSlides(slides, i + 1, ctx,
         walk(slides[i], ctx, Ran(PushField(slides[i], "description", ctx, "slide", w.acc))))

extractFromBlock(block, acc, lessonTitle, lessonId) ==
  IF ~Truthy(block) \/ ~Truthy(Get(block, "items")) THEN Ran(acc)
  ELSE IF IsArray(Get(block, "items"))
       THEN walkItems(Get(block, "items").a, 1,
                      [lessonId |-> lessonId, blockId |-> OrEmpty(Get(block, "id")),
                       lessonTitle |-> lessonTitle],
                      Ran(acc))
       ELSE Threw(acc)

Section == <<"S","e","c","t","i","o","n">>

\* x || 'Section'
OrSection(s) == IF s # <<>> THEN s ELSE Section

\* The outcome of getBlockTitle: the title returned, or a TypeError
Titled(s) == [title |-> s, threw |-> FALSE]

NoTitle == [title |-> <<>>, threw |-> TRUE]

RECURSIVE titleOfItems(_, _)
titleOfItems(items, i) ==
  IF i > Len(items) THEN Titled(Section)
  ELSE IF Nullish(items[i]) THEN NoTitle
  ELSE IF Truthy(Get(items[i], "heading"))
       THEN Titled(OrSection(Slice(stripHtml(Get(items[i], "heading")), 0, 80)))
  ELSE IF Truthy(Get(items[i], "paragraph"))
       THEN Titled(OrSection(Slice(stripHtml(Get(items[i], "paragraph")), 0, 60)))
  ELSE IF Truthy(Get(items[i], "title"))
       THEN Titled(OrSection(Slice(stripHtml(Get(items[i], "title")), 0, 60)))
  ELSE titleOfItems(items, i + 1)

getBlockTitle(block) ==
  IF ~Truthy(block) \/ ~Truthy(Get(block, "items")) THEN Titled(Section)
  ELSE CASE Get(block, "items").t = "array"  -> titleOfItems(Get(block, "items").a, 1)
         [] Get(block, "items").t = "string" -> Titled(Section)
         [] OTHER                            -> NoTitle

\* The outcome of a stretch of buildFromCourse: what courseIndex and
\* courseToc hold after it, and whether a TypeError ended it
Built(index, toc, threw) == [index |-> index, toc |-> toc, threw |-> threw]

\* les.items.map(function(bl) { extractFromBlock(...); return {blockId, title}; })
RECURSIVE mapBlocks(_, _, _, _, _, _)

\* the callback for the block bl, after extractFromBlock gave w and
\* getBlockTitle gave ti, and the rest of the map
mapBlock(bls, i, lessonTitle, lessonId, blocks, w, ti) ==
  IF w.threw \/ Nullish(bls[i]) \/ ti.threw
  THEN [acc |-> w.acc, blocks |-> blocks, threw |-> TRUE]
  ELSE mapBlocks(bls, i + 1, lessonTitle, lessonId, w.acc,
                 Append(blocks, [blockId |-> OrEmpty(Get(bls[i], "id")),
                                 title |-> ti.title]))

mapBlocks(bls, i, lessonTitle, lessonId, acc, blocks) ==
  IF i > Len(bls) THEN [acc |-> acc, blocks |-> blocks, threw |-> FALSE]
  ELSE mapBlock(bls, i, lessonTitle, lessonId, blocks,
                extractFromBlock(bls[i], acc, lessonTitle, lessonId),
                getBlockTitle(bls[i]))

\* x || 'Lesson'
OrLesson(s) == IF s # <<>> THEN s ELSE <<"L","e","s","s","o","n">>

\* les.items || []
ItemsOf(les) == IF Truthy(Get(les, "items")) THEN Get(les, "items") ELSE Arr(<<>>)

\* lessons.forEach(function(les) { ... courseToc.push(...) })
RECURSIVE eachLesson(_, _, _)

\* the end of the callback for a lesson, after the map over its blocks
\* gave m, and the rest of the loop
pushLesson(lessons, i, b, lessonId, lessonTitle, m) ==
  IF m.threw THEN Built(m.acc, b.toc, TRUE)
  ELSE eachLesson(lessons, i + 1,
         Built(m.acc,
               Append(b.toc, [lessonId |-> lessonId, lessonTitle |-> lessonTitle,
                              blocks |-> m.blocks]),
               FALSE))

\* the callback for the lesson i, with its id and title
lesson(lessons, i, b, lessonId, lessonTitle) ==
  IF ~IsArray(ItemsOf(lessons[i])) THEN Built(b.index, b.toc, TRUE)
  ELSE pushLesson(lessons, i, b, lessonId, lessonTitle,
                  mapBlocks(ItemsOf(lessons[i]).a, 1, lessonTitle, lessonId, b.index, <<>>))

eachLesson(lessons, i, b) ==
  IF b.threw \/ i > Len(lessons) THEN b
  ELSE IF Nullish(lessons[i]) THEN Built(b.index, b.toc, TRUE)
  ELSE lesson(lessons, i, b, OrEmpty(Get(lessons[i], "id")),
              OrLesson(stripHtml(Get(lessons[i], "title"))))

\* A variant of emptied that keeps what an earlier build left.
carriedOver(old) == old

\* courseIndex = []; courseToc = [];
emptied(old) == <<>>

\* (course && course.lessons) || []
lessonsOf(course) ==
  IF Truthy(course) /\ Truthy(Get(course, "lessons")) THEN Get(course, "lessons")
  ELSE Arr(<<>>)

\* buildFromCourse(course), with the courseIndex and courseToc it finds
buildFromCourse(course, oldIndex, oldToc) ==
  IF ~IsArray(lessonsOf(course)) THEN Built(emptied(oldIndex), emptied(oldToc), TRUE)
  ELSE eachLesson(lessonsOf(course).a, 1, Built(emptied(oldIndex), emptied(oldToc), FALSE))

\* ------------------------------------------------------------------------
\* cleanText
\* ------------------------------------------------------------------------

\* is there one of [.,;:!?] at position j
PunctAt(s, j) == j <= Len(s) /\ s[j] \in {".", ",", ";", ":", "!", "?"}

\* t.replace(/\s+([.,;:!?])/g, '$1'): a run of whitespace is dropped when
\* one of these punctuation marks follows it
DropSpaceBeforePunct(s) ==
  Let(SelectSeq(Idx(s), LAMBDA i : ~(IsSpace(s[i]) /\ PunctAt(s, SkipSpaces(s, i)))),
      LAMBDA kept : [k \in 1..Len(kept) |-> s[kept[k]]])

\* t.replace(/\s*$/, '.'): the trailing whitespace, or the empty match at
\* the end, becomes the period
AppendPeriod(s) == Append(TrimRight(s), ".")

\* t.replace(/[.?!]+$/, m => m.charAt(0)): the run of [.?!] that ends s is
\* cut to its first character
SingleTerminal(s) == SubSeq(s, 1, ScanBack(s, Len(s), IsTerminal) + 1)

\* t.replace(/([.?!])([A-Za-z])/g, '$1 $2')
SpaceAfterTerminal(s) ==
  Flatten([i \in 1..Len(s) |->
             IF IsTerminal(s[i]) /\ i < Len(s) /\ IsLetter(s[i + 1])
             THEN <<s[i], " ">> ELSE <<s[i]>>])

\* does a match of ([a-z]'[a-z]*)([A-Z]) end at position e: the capital at e
\* follows a run of lower-case letters (maybe none) that follows an
\* apostrophe that follows a lower-case letter
ContractionBefore(s, e) ==
  /\ IsUpper(s[e])
  /\ Let(ScanBack(s, e - 1, IsLower), LAMBDA q : q >= 2 /\ s[q] = "'" /\ IsLower(s[q - 1]))

\* t.replace(/([a-z]'[a-z]*)([A-Z])/g, '$1 $2')
SpaceAfterContraction(s) ==
  Flatten([i \in 1..Len(s) |->
             IF ContractionBefore(s, i) THEN <<" ", s[i]>> ELSE <<s[i]>>])

\* t.charAt(0).toUpperCase() + t.slice(1)
Capitalize(s) == IF s = <<>> THEN s ELSE <<ToUpperChar(s[1])>> \o Tail(s)

\* if (t && !/[.?!]$/.test(t) && !/…$/.test(t)) t = t.replace(/\s*$/, '.')
EndWithTerminal(t) ==
  IF t # <<>> /\ ~IsTerminal(t[Len(t)]) /\ t[Len(t)] # Ellipsis THEN AppendPeriod(t) ELSE t

\* if (t && /[.?!]$/.test(t)) t = t.replace(/[.?!]+$/, ...)
EndWithOneTerminal(t) ==
  IF t # <<>> /\ IsTerminal(t[Len(t)]) THEN SingleTerminal(t) ELSE t

\* cleanText(s) for a string s ('' for the empty string)
cleanText(s) ==
  IF s = <<>> THEN <<>>
  ELSE SpaceAfterContraction(
         SpaceAfterTerminal(
           EndWithOneTerminal(
             Capitalize(
               EndWithTerminal(
                 DropSpaceBeforePunct(
                   Trim(CollapseWs(s))))))))

\* ------------------------------------------------------------------------
\* simplifyForAnswer
\* ------------------------------------------------------------------------

\* t.replace(/\s*\([^)]*\)\s*/g, ' '), from position cur on: from an opening
\* parenthesis to the first closing one after it, with the whitespace
\* around, becomes a space
RECURSIVE RemoveParentheticals(_, _)

\* the replacement of the match from the parenthesis at open to the one at
\* close (0 for no match), and of the matches after it
RemoveParenthetical(s, cur, open, close) ==
  IF close = 0 THEN SubSeq(s, cur, Len(s))
  ELSE SubSeq(s, cur, Max({cur, ScanBack(s, open - 1, IsSpace) + 1}) - 1) \o <<" ">>
         \o RemoveParentheticals(s, SkipSpaces(s, close + 1))

\* the first closing parenthesis after the opening one at open, or 0
ClosingOf(s, open) == IF open = 0 THEN 0 ELSE IndexFrom(s, ")", open + 1)

RemoveParentheticals(s, cur) ==
  Let(IndexFrom(s, "(", cur),
      LAMBDA open : RemoveParenthetical(s, cur, open, ClosingOf(s, open)))

\* [\w&]
IsWordAmp(c) == IsWord(c) \/ c = "&"

IsSpaceOrWordAmp(c) == IsSpace(c) \/ IsWordAmp(c)

\* (?:\s+[\w&]+)* from position e: the position after the last word taken
SkipTailWords(s, e) ==
  IF e > Len(s) \/ ~IsSpace(s[e]) THEN e
  ELSE MaxOr({j \in e..(Scan(s, e, IsSpaceOrWordAmp, FALSE) - 1) : IsWordAmp(s[j])}, e - 1) + 1

BulletBreak == <<"\n", Bullet, " ">>

\* t.replace(/([a-z])([A-Z][a-z]+(?:\s+[\w&]+)*)/g, '$1\n• $2'), from
\* position cur on
RECURSIVE BreakRunTogether(_, _)

\* the replacement of the match whose lower-case letter is at i and whose
\* end is before e, and of the matches after it; i = 0 for no match
BreakOneRunTogether(s, cur, i, e) ==
  IF i = 0 THEN SubSeq(s, cur, Len(s))
  ELSE SubSeq(s, cur, i) \o BulletBreak \o SubSeq(s, i + 1, e - 1) \o BreakRunTogether(s, e)

BreakRunTogether(s, cur) ==
  Let(MinOr({i \in cur..(Len(s) - 2) :
               IsLower(s[i]) /\ IsUpper(s[i + 1]) /\ IsLower(s[i + 2])}, 0),
      LAMBDA i : BreakOneRunTogether(s, cur, i,
                   IF i = 0 THEN 0 ELSE SkipTailWords(s, Scan(s, i + 2, IsLower, FALSE))))

KeyPrinciplesTitle == <<"K","e","y"," ","P","r","i","n","c","i","p","l","e","s"," ","o","f"," ","P","l","a","i","n"," ","L","a","n","g","u","a","g","e">>

\* t.replace(/Key Principles of Plain Language(?=\s*Short Sentences)/i,
\*           'Key Principles of Plain Language\n• '): the first match only
BreakAfterKeyPrinciples(s) ==
  Let(MinOr({i \in 1..Len(s) :
               /\ LitAtCI(s, i, KeyPrinciplesTitle)
               /\ LitAtCI(s, SkipSpaces(s, i + Len(KeyPrinciplesTitle)), <<"S","h","o","r","t"," ","S","e","n","t","e","n","c","e","s">>)},
            0),
      LAMBDA hit :
        IF hit = 0 THEN s
        ELSE SubSeq(s, 1, hit - 1) \o KeyPrinciplesTitle \o BulletBreak
               \o SubSeq(s, hit + Len(KeyPrinciplesTitle), Len(s)))

\* t.replace(/<w>(?=[A-Z])/g, '<w>\n• ') for the literal w
BreakAfter(s, w) ==
  Flatten([i \in 1..Len(s) |->
             IF LitAt(s, i - Len(w) + 1, w) /\ i < Len(s) /\ IsUpper(s[i + 1])
             THEN <<s[i]>> \o BulletBreak ELSE <<s[i]>>])

\* t.replace(/\s*\([^)]*$/g, ''): an opening parenthesis that is never
\* closed is dropped to the end, with the whitespace before it
DropUnclosed(s) ==
  Let(MinOr({i \in 1..Len(s) : s[i] = "(" /\ IndexFrom(s, ")", i + 1) = 0}, 0),
      LAMBDA hit : IF hit = 0 THEN s ELSE SubSeq(s, 1, ScanBack(s, hit - 1, IsSpace)))

\* is position i in a run of whitespace that follows one of [.?!]
AfterTerminal(s, i) ==
  /\ IsSpace(s[i])
  /\ Let(ScanBack(s, i, IsSpace), LAMBDA pred : pred >= 1 /\ IsTerminal(s[pred]))

\* t.replace(/([.?!])\s+/g, '$1\n'): a run of whitespace that follows one of
\* [.?!] becomes a line break
BreakAfterTerminal(s) ==
  Let(SelectSeq(Idx(s), LAMBDA i : ~AfterTerminal(s, i) \/ ScanBack(s, i, IsSpace) = i - 1),
      LAMBDA kept : [k \in 1..Len(kept) |->
                       IF AfterTerminal(s, kept[k]) THEN "\n" ELSE s[kept[k]]])

ObjectiveVerbs == <<<<"R","e","c","o","g","n","i","s","e">>, <<"A","p","p","l","y">>, <<"U","s","e">>>>

\* \s+[^.!?]+[.!?] from position k, where p is the first of [.!?] from k
\* on: the position p of the end, or 0
ObjectiveEndFrom(s, k, p) ==
  IF k <= Len(s) /\ IsSpace(s[k]) /\ p >= k + 2 /\ p <= Len(s) THEN p ELSE 0

\* The end of a match of (Recognise|Apply|Use)\s+[^.!?]+[.!?] (letter case
\* ignored) that starts at position i, or 0
ObjectiveEnd(s, i) ==
  Let(MinOr({v \in 1..Len(ObjectiveVerbs) : LitAtCI(s, i, ObjectiveVerbs[v])}, 0),
      LAMBDA v :
        IF v = 0 THEN 0
        ELSE ObjectiveEndFrom(s, i + Len(ObjectiveVerbs[v]),
                              Scan(s, i + Len(ObjectiveVerbs[v]), IsTerminal, TRUE)))

\* t.match(re) with the g flag, from position cur on: every match, left to
\* right, none overlapping
RECURSIVE ObjectiveMatches(_, _)
ObjectiveMatches(s, cur) ==
  Let(MinOr({i \in cur..Len(s) : ObjectiveEnd(s, i) # 0}, 0),
      LAMBDA hit :
        IF hit = 0 THEN <<>>
        ELSE Let(ObjectiveEnd(s, hit),
                 LAMBDA end : <<SubSeq(s, hit, end)>> \o ObjectiveMatches(s, end + 1)))

\* /(Recognise|Apply|Use)\s+/i.test(s)
HasObjectiveVerb(s) ==
  \E i \in 1..Len(s) : \E v \in 1..Len(ObjectiveVerbs) :
     /\ LitAtCI(s, i, ObjectiveVerbs[v])
     /\ i + Len(ObjectiveVerbs[v]) <= Len(s)
     /\ IsSpace(s[i + Len(ObjectiveVerbs[v])])

\* a.slice(0, n)
Take(a, n) == SubSeq(a, 1, IF Len(a) < n THEN Len(a) ELSE n)

\* '• ' + cleanText(s) for every s of a, joined with '\n'
Bulleted(a) == Join([i \in 1..Len(a) |-> <<Bullet, " ">> \o cleanText(a[i])], <<"\n">>)

\* m ? m[0] : s
FirstOr(m, s) == IF m # <<>> THEN m[1] ELSE s

\* the fallback loop of the objectives branch over the sentences i..
RECURSIVE ObjectiveSentences(_, _, _)
ObjectiveSentences(sents, i, taken) ==
  IF i > Len(sents) \/ Len(taken) >= 3 THEN taken
  ELSE IF HasObjectiveVerb(sents[i]) /\ Len(sents[i]) < 130
       THEN ObjectiveSentences(sents, i + 1,
              Append(taken, FirstOr(ObjectiveMatches(sents[i], 1), sents[i])))
       ELSE ObjectiveSentences(sents, i + 1, taken)

\* the loop of the general branch: the first sentences of at least 10
\* characters, at most 2, while fewer than 220 characters are taken
RECURSIVE FirstSentences(_, _, _, _)
FirstSentences(sep, i, taken, len) ==
  IF i > Len(sep) \/ len >= 220 \/ Len(taken) >= 2 THEN taken
  ELSE Let(Trim(sep[i]),
           LAMBDA s : IF Len(s) >= 10
                      THEN FirstSentences(sep, i + 1, Append(taken, s), len + Len(s))
                      ELSE FirstSentences(sep, i + 1, taken, len))

\* the text after the replacements that both intents share
simplified(text) ==
  Trim(CollapseWs(
    DropUnclosed(
      BreakAfter(
        BreakAfter(
          BreakAfterKeyPrinciples(
            BreakRunTogether(
              Trim(CollapseWs(RemoveParentheticals(Trim(CollapseWs(text)), 1))), 1)),
          <<"S","h","o","r","t"," ","S","e","n","t","e","n","c","e","s">>),
        <<"A","c","t","i","v","e"," ","V","o","i","c","e">>))))

\* the part of simplifyForAnswer after the objectives branch
simplifyGeneral(t) ==
  IF \E i \in 1..Len(t) : LitAt(t, i, BulletBreak)
  THEN Join(Take(SelectSeq(SplitOn(t, "\n"), LAMBDA l : Len(Trim(l)) > 0), 6), <<"\n">>)
  ELSE Let(FirstSentences(SplitOn(BreakAfterTerminal(t), "\n"), 1, <<>>, 0),
           LAMBDA taken :
             cleanText(IF taken # <<>> THEN Join(taken, <<" ">>) ELSE Slice(t, 0, 200)))

\* the objectives branch: the matches of the objectives pattern, else the
\* sentences with an objectives verb, else the general part
simplifyObjectives(t) ==
  Let(ObjectiveMatches(t, 1),
      LAMBDA ms :
        IF ms # <<>> THEN Bulleted(Take(ms, 3))
        ELSE Let(ObjectiveSentences(SplitOn(BreakAfterTerminal(t), "\n"), 1, <<>>),
                 LAMBDA taken : IF taken # <<>> THEN Bulleted(taken) ELSE simplifyGeneral(t)))

\* simplifyForAnswer(text, intent) for a string text
simplifyForAnswer(text, intent) ==
  IF text = <<>> THEN <<>>
  ELSE IF intent = "objectives" THEN simplifyObjectives(simplified(text))
  ELSE simplifyGeneral(simplified(text))

\* ------------------------------------------------------------------------
\* pickRelevantSentences
\* ------------------------------------------------------------------------

\* xs in descending order of key, the order of equal keys kept: what
\* Array.prototype.sort does with the comparator b.key - a.key (the sort is
\* stable since ECMAScript 2019).  Insertion from position i on.
InsertAt(sorted, x, at) ==
  SubSeq(sorted, 1, at - 1) \o <<x>> \o SubSeq(sorted, at, Len(sorted))

RECURSIVE SortDescFrom(_, _, _, _)
SortDescFrom(xs, key(_), i, sorted) ==
  IF i > Len(xs) THEN sorted
  ELSE SortDescFrom(xs, key, i + 1,
         InsertAt(sorted, xs[i],
                  MinOr({j \in 1..Len(sorted) : RatGT(key(xs[i]), key(sorted[j]))},
                        Len(sorted) + 1)))

SortDesc(xs, key(_)) == SortDescFrom(xs, key, 1, <<>>)

\* text.replace(/([.?!])([A-Z])/g, '$1\n$2')
BreakBeforeCapital(s) ==
  Flatten([i \in 1..Len(s) |->
             IF IsTerminal(s[i]) /\ i < Len(s) /\ IsUpper(s[i + 1])
             THEN <<s[i], "\n">> ELSE <<s[i]>>])

\* text.slice(0, maxLen) + (text.length > maxLen ? '…' : ''), cleaned
Prefix(text, maxLen) ==
  cleanText(Slice(text, 0, maxLen) \o (IF Len(text) > maxLen THEN <<Ellipsis>> ELSE <<>>))

\* s.replace(/\s+\S*$/, ''): the last run of whitespace and what follows it
DropLastWord(s) ==
  Let(MaxOr({j \in 1..Len(s) : IsSpace(s[j])}, 0),
      LAMBDA last : IF last = 0 THEN s ELSE SubSeq(s, 1, ScanBack(s, last, IsSpace)))

\* the cut of out to maxLen: at the last '. ' that starts at or before
\* maxLen when that is past 0.6 of maxLen, else mid-text with an ellipsis
Truncate(out, maxLen) ==
  IF Len(out) <= maxLen THEN out
  ELSE Let(MaxOr({p \in 1..(maxLen + 1) : LitAt(out, p, <<".", " ">>)}, 0) - 1,
           LAMBDA at : IF 10 * at > 6 * maxLen THEN Slice(out, 0, at + 1)
                       ELSE Append(DropLastWord(Slice(out, 0, maxLen - 1)), Ellipsis))

\* x.filter(keep), unless that leaves nothing
Narrow(xs, keep(_)) ==
  Let(SelectSeq(xs, keep), LAMBDA only : IF Len(only) > 0 THEN only ELSE xs)

TableExamples == {<<"b","r","i","t","i","s","h">>, <<"y","o","u","r"," ","u","n","c","l","e">>, <<"e","g","r","e","s","s">>, <<"b","o","b","'","s">>, <<"n","o","t"," ","r","e","c","o","m","m","e","n","d","e","d">>}

\* the sentences of text: the lines after a break is put after every
\* [.?!], trimmed, those of at least 12 characters
allSentences(text) ==
  Let(SplitOn(BreakAfterTerminal(BreakBeforeCapital(text)), "\n"),
      LAMBDA lines : SelectSeq([i \in 1..Len(lines) |-> Trim(lines[i])],
                               LAMBDA s : Len(s) >= 12))

\* the sentences that name the focus term, when there is one and some do
focusOn(all, term) ==
  IF term = "passive"
  THEN Narrow(all, LAMBDA s : Includes(toLowerCase(s), <<"p","a","s","s","i","v","e"," ","v","o","i","c","e">>))
  ELSE IF term = "active"
  THEN Narrow(all, LAMBDA s : Includes(toLowerCase(s), <<"a","c","t","i","v","e"," ","v","o","i","c","e">>))
  ELSE all

\* without the sentences that hold a table example, when asked and some
\* remain
withoutTable(sentences, exclude) ==
  IF exclude
  THEN Narrow(sentences, LAMBDA s : ~\E w \in TableExamples : Includes(toLowerCase(s), w))
  ELSE sentences

\* sentences.map(s => ({ s, sc: scoreMatch(queryTokens, s) })).filter(x => x.sc > 0)
withScore(sentences, queryTokens) ==
  SelectSeq([i \in 1..Len(sentences) |->
               [s |-> sentences[i], sc |-> scoreMatch(queryTokens, sentences[i])]],
            LAMBDA x : x.sc.num > 0)

\* the two best sentences, joined and cut to maxLen; the start of the text
\* when no sentence scores
joinBest(text, sorted, maxLen) ==
  IF Len(sorted) = 0 THEN Prefix(text, maxLen)
  ELSE cleanText(Truncate(Trim(Join([i \in 1..Len(Take(sorted, 2)) |-> sorted[i].s],
                                    <<" ">>)),
                          maxLen))

\* the part of pickRelevantSentences after the sentences are split
pickFrom(text, all, queryTokens, maxLen, opts) ==
  IF Len(all) = 0 THEN Prefix(text, maxLen)
  ELSE joinBest(text,
                SortDesc(withScore(withoutTable(focusOn(all, opts.focusTerm),
                                                opts.excludeTableExamples),
                                   queryTokens),
                         LAMBDA x : x.sc),
                maxLen)

\* pickRelevantSentences(text, queryTokens, maxLen, opts) for maxLen > 0;
\* opts is [focusTerm, excludeTableExamples], focusTerm "" for null
pickRelevantSentences(text, queryTokens, maxLen, opts) ==
  IF text = <<>> \/ Len(queryTokens) = 0 THEN <<>>
  ELSE pickFrom(text, allSentences(text), queryTokens, maxLen, opts)
\* ------------------------------------------------------------------------
\* answerFromCourse
\* ------------------------------------------------------------------------

StillLoading == <<"C","o","u","r","s","e"," ","c","o","n","t","e","n","t"," ","i","s"," ","s","t","i","l","l"," ","l","o","a","d","i","n","g","."," ","P","l","e","a","s","e"," ","t","r","y"," ","a","g","a","i","n"," ","i","n"," ","a"," ","m","o","m","e","n","t",".">>

PleaseAsk == <<"P","l","e","a","s","e"," ","a","s","k"," ","a"," ","q","u","e","s","t","i","o","n"," ","a","b","o","u","t"," ","t","h","e"," ","c","o","u","r","s","e",".">>

InclusiveNotFound == <<"I"," ","c","o","u","l","d","n","'","t"," ","f","i","n","d"," ","a"," ","d","e","f","i","n","i","t","i","o","n"," ","o","f"," ","i","n","c","l","u","s","i","v","e"," ","l","a","n","g","u","a","g","e"," ","i","n"," ","t","h","e"," ","c","o","u","r","s","e","."," ","T","r","y"," ","t","h","e"," ","\"","I","n","c","l","u","s","i","v","e"," ","L","a","n","g","u","a","g","e","\""," ","s","e","c","t","i","o","n",","," ","o","r"," ","a","s","k"," ","\"","w","h","a","t"," ","i","s"," ","p","l","a","i","n"," ","l","a","n","g","u","a","g","e","\""," ","f","o","r"," ","t","h","e"," ","d","i","f","f","e","r","e","n","c","e",".">>

NotFoundLead == <<"I"," ","c","o","u","l","d","n","'","t"," ","f","i","n","d"," ","t","h","a","t"," ","i","n"," ","t","h","e"," ","c","o","u","r","s","e","."," ","T","r","y",":"," ">>

DefaultTopics == <<"p","l","a","i","n"," ","l","a","n","g","u","a","g","e",","," ","i","n","c","l","u","s","i","v","e"," ","c","o","m","m","u","n","i","c","a","t","i","o","n">>

ObjectivesLead == <<"A","c","c","o","r","d","i","n","g"," ","t","o"," ","t","h","e"," ","c","o","u","r","s","e",","," ","t","h","e"," ","o","b","j","e","c","t","i","v","e","s"," ","a","r","e",":","\n">>

AnswerLead == <<"A","c","c","o","r","d","i","n","g"," ","t","o"," ","t","h","e"," ","c","o","u","r","s","e",":"," ">>

\* var MIN_SCORE = 0.35, which is 7/20
MIN_SCORE == Rat(7, 20)

\* s += 0.35 for a defining verb, s += 0.25 for a paragraph: 7/20 and 1/4
DefBonus == Rat(7, 20)

ParagraphBonus == Rat(1, 4)

\* /what does .+ mean/ on the lower-cased query: at least one character
\* that is no line break between 'what does ' and ' mean'
WhatDoesMean(lq) ==
  \E i \in 1..Len(lq) : \E j \in 1..Len(lq) :
     /\ LitAt(lq, i, <<"w","h","a","t"," ","d","o","e","s"," ">>)
     /\ j > i + Len(<<"w","h","a","t"," ","d","o","e","s"," ">>)
     /\ LitAt(lq, j, <<" ","m","e","a","n">>)
     /\ \A k \in (i + Len(<<"w","h","a","t"," ","d","o","e","s"," ">>))..(j - 1) : lq[k] # "\n"

\* /what is|define|meaning of|what does .+ mean/i.test(q)
isDefinitional(q) ==
  \/ TestAny(toLowerCase(q), {<<"w","h","a","t"," ","i","s">>, <<"d","e","f","i","n","e">>, <<"m","e","a","n","i","n","g"," ","o","f">>})
  \/ WhatDoesMean(toLowerCase(q))

\* /objectives?|goals?|learning outcomes?|what will I learn|what are the objectives/i.test(q);
\* an optional last letter does not change what test returns
isObjectives(q) ==
  TestAny(toLowerCase(q), {<<"o","b","j","e","c","t","i","v","e">>, <<"g","o","a","l">>, <<"l","e","a","r","n","i","n","g"," ","o","u","t","c","o","m","e">>,
                           <<"w","h","a","t"," ","w","i","l","l"," ","i"," ","l","e","a","r","n">>, <<"w","h","a","t"," ","a","r","e"," ","t","h","e"," ","o","b","j","e","c","t","i","v","e","s">>})

\* /example|quiz|question|practice/i.test(q)
wantExamples(q) ==
  TestAny(toLowerCase(q), {<<"e","x","a","m","p","l","e">>, <<"q","u","i","z">>, <<"q","u","e","s","t","i","o","n">>, <<"p","r","a","c","t","i","c","e">>})

\* A variant of typeOk that lets every entry pass.
anyTypeOk(e, q) == TRUE

\* typeOk(e): quiz items are left out unless the user asks for examples
typeOk(e, q) == wantExamples(q) \/ (e.type # "question" /\ e.type # "answer")

\* the filter of the objectives branch
IsObjectivesEntry(e, q) ==
  /\ typeOk(e, q)
  /\ e.type = "paragraph" \/ e.type = "heading"
  /\ TestAny(toLowerCase(e.text), {<<"a","t"," ","t","h","e"," ","e","n","d"," ","o","f"," ","t","h","e"," ","c","o","u","r","s","e">>, <<"o","b","j","e","c","t","i","v","e","s">> \o <<Wb>>})
  /\ TestAny(toLowerCase(e.text), {<<"r","e","c","o","g","n","i","s","e">>, <<"a","p","p","l","y">>, <<"u","s","e"," ","i","n","c","l","u","s","i","v","e">>})

\* /\binclusive\b/i.test(q)
askInclusive(q) == Test(toLowerCase(q), <<Wb>> \o <<"i","n","c","l","u","s","i","v","e">> \o <<Wb>>)

\* The topic filters, in the order of the source: the test on the query
\* and the patterns an entry's text must match one of.  A filter that no
\* entry passes leaves the pool as it is.
askPlain(q) ==
  /\ Test(toLowerCase(q), <<Wb>> \o <<"p","l","a","i","n">> \o <<Wb>>)
  /\ Test(toLowerCase(q), <<Wb>> \o <<"l","a","n","g","u","a","g","e">> \o <<Wb>>)
  /\ ~askInclusive(q)

PlainMarks == {<<"p","l","a","i","n">> \o <<Sp>> \o <<"l","a","n","g","u","a","g","e">>,
               <<"p","l","a","i","n">> \o <<Sp>> \o <<"l","a","n","g","u","a","g","e">> \o <<Sp>> \o <<"m","e","a","n","s">>}

askVoice(q) ==
  TestAny(toLowerCase(q), {<<Wb>> \o <<"a","c","t","i","v","e">> \o <<Sp>> \o <<"v","o","i","c","e">> \o <<Wb>>,
                           <<Wb>> \o <<"p","a","s","s","i","v","e">> \o <<Sp>> \o <<"v","o","i","c","e">> \o <<Wb>>})

VoiceMarks == {<<"a","c","t","i","v","e">> \o <<Sp>> \o <<"v","o","i","c","e">>, <<"p","a","s","s","i","v","e">> \o <<Sp>> \o <<"v","o","i","c","e">>}

askShort(q) ==
  Test(toLowerCase(q), <<Wb>> \o <<"s","h","o","r","t">> \o <<Sp>> \o <<"s","e","n","t","e","n","c","e","s">> \o <<Wb>>)

ShortMarks == {<<"s","h","o","r","t">> \o <<Sp>> \o <<"s","e","n","t","e","n","c","e","s">>}

askPrinciples(q) ==
  TestAny(toLowerCase(q),
          {<<Wb>> \o <<"k","e","y">> \o <<Sp>> \o <<"p","r","i","n","c","i","p","l","e">> \o <<Wb>>,
           <<Wb>> \o <<"k","e","y">> \o <<Sp>> \o <<"p","r","i","n","c","i","p","l","e","s">> \o <<Wb>>,
           <<Wb>> \o <<"p","r","i","n","c","i","p","l","e","s">> \o <<Sp>> \o <<"o","f">> \o <<Sp>> \o <<"p","l","a","i","n">> \o <<Wb>>})

PrinciplesMarks == {<<"k","e","y">> \o <<Sp>> \o <<"p","r","i","n","c","i","p","l","e","s">>, <<"s","h","o","r","t">> \o <<Sp>> \o <<"s","e","n","t","e","n","c","e","s">>,
                    <<"a","c","t","i","v","e">> \o <<Sp>> \o <<"v","o","i","c","e">>, <<"f","a","m","i","l","i","a","r">> \o <<Sp>> \o <<"w","o","r","d","s">>}

askFamiliar(q) ==
  TestAny(toLowerCase(q),
          {<<Wb>> \o <<"f","a","m","i","l","i","a","r">> \o <<Sp>> \o <<"w","o","r","d">> \o <<Wb>>,
           <<Wb>> \o <<"f","a","m","i","l","i","a","r">> \o <<Sp>> \o <<"w","o","r","d","s">> \o <<Wb>>,
           <<Wb>> \o <<"e","v","e","r","y","d","a","y">> \o <<Sp>> \o <<"w","o","r","d">> \o <<Wb>>,
           <<Wb>> \o <<"e","v","e","r","y","d","a","y">> \o <<Sp>> \o <<"w","o","r","d","s">> \o <<Wb>>,
           <<Wb>> \o <<"c","o","m","m","o","n">> \o <<Sp>> \o <<"w","o","r","d">> \o <<Wb>>,
           <<Wb>> \o <<"c","o","m","m","o","n">> \o <<Sp>> \o <<"w","o","r","d","s">> \o <<Wb>>})

FamiliarMarks == {<<"f","a","m","i","l","i","a","r">> \o <<Sp>> \o <<"w","o","r","d","s">>, <<"e","v","e","r","y","d","a","y">>,
                  <<"c","o","m","m","o","n">> \o <<Sp>> \o <<"w","o","r","d","s">>}

askIntro(q) ==
  TestAny(toLowerCase(q),
          {<<Wb>> \o <<"i","n","t","r","o","d","u","c","t","i","o","n">> \o <<Wb>>, <<Wb>> \o <<"i","n","t","r","o">> \o <<Wb>>,
           <<Wb>> \o <<"w","h","a","t"," ","i","s"," ","t","h","i","s"," ","c","o","u","r","s","e">> \o <<Wb>>,
           <<Wb>> \o <<"c","o","u","r","s","e"," ","a","b","o","u","t">> \o <<Wb>>})

IntroMarks == {<<"i","n"," ","t","h","i","s"," ","c","o","u","r","s","e",","," ","y","o","u","'","l","l"," ","l","e","a","r","n">>, <<"w","o","r","k","p","l","a","c","e"," ","c","o","m","m","u","n","i","c","a","t","i","o","n">>, <<"w","o","r","d","s"," ","s","h","a","p","e">>}

\* pool.filter(e => marks.test(e.text)) when asked, unless that is empty
NarrowTo(pool, asked, marks) ==
  IF asked THEN Narrow(pool, LAMBDA e : TestAny(toLowerCase(e.text), marks)) ELSE pool

\* / (\b(?:is|means|refers to|avoids|helps create|involves)\b) /i
DefMarks == {<<" ", Wb>> \o <<"i","s">> \o <<Wb, " ">>,
             <<" ", Wb>> \o <<"m","e","a","n","s">> \o <<Wb, " ">>,
             <<" ", Wb>> \o <<"r","e","f","e","r","s"," ","t","o">> \o <<Wb, " ">>,
             <<" ", Wb>> \o <<"a","v","o","i","d","s">> \o <<Wb, " ">>,
             <<" ", Wb>> \o <<"h","e","l","p","s"," ","c","r","e","a","t","e">> \o <<Wb, " ">>,
             <<" ", Wb>> \o <<"i","n","v","o","l","v","e","s">> \o <<Wb, " ">>}

\* /\b(short sentences|active voice|familiar words|key principles)\b/i.test(q)
isConceptQuery(q) ==
  TestAny(toLowerCase(q),
          {<<Wb>> \o <<"s","h","o","r","t"," ","s","e","n","t","e","n","c","e","s">> \o <<Wb>>, <<Wb>> \o <<"a","c","t","i","v","e"," ","v","o","i","c","e">> \o <<Wb>>,
           <<Wb>> \o <<"f","a","m","i","l","i","a","r"," ","w","o","r","d","s">> \o <<Wb>>, <<Wb>> \o <<"k","e","y"," ","p","r","i","n","c","i","p","l","e","s">> \o <<Wb>>})

\* the first entry of the index that the objectives branch accepts, in a
\* sequence of at most one
objectivesEntry(q, index) ==
  Take(SelectSeq(index, LAMBDA e : IsObjectivesEntry(e, q)), 1)

\* courseIndex.filter(typeOk)
eligible(q, index) == SelectSeq(index, LAMBDA e : typeOk(e, q))

\* pool.filter(e => /inclusive/i.test(e.text))
inclusiveOnly(q, index) ==
  SelectSeq(eligible(q, index), LAMBDA e : Test(toLowerCase(e.text), <<"i","n","c","l","u","s","i","v","e">>))

\* the pool that is scored
pool(q, index) ==
  NarrowTo(
    NarrowTo(
      NarrowTo(
        NarrowTo(
          NarrowTo(
            NarrowTo(IF askInclusive(q) THEN inclusiveOnly(q, index) ELSE eligible(q, index),
                     askPlain(q), PlainMarks),
            askVoice(q), VoiceMarks),
          askShort(q), ShortMarks),
        askPrinciples(q), PrinciplesMarks),
      askFamiliar(q), FamiliarMarks),
    askIntro(q), IntroMarks)

\* if (isDefinitional && defBoost.test(entry.text)) s += 0.35
defBoost(entry, q, s) ==
  IF isDefinitional(q) /\ TestAny(toLowerCase(entry.text), DefMarks)
  THEN RatAdd(s, DefBonus) ELSE s

\* if ((isDefinitional || isConceptQuery) && entry.type === 'paragraph') s += 0.25
paragraphBoost(entry, q, s) ==
  IF (isDefinitional(q) \/ isConceptQuery(q)) /\ entry.type = "paragraph"
  THEN RatAdd(s, ParagraphBonus) ELSE s

\* the score of one entry of the pool, bonuses included
boosted(entry, q) ==
  paragraphBoost(entry, q, defBoost(entry, q, scoreMatch(tokenize(q), entry.text)))

\* pool.map(score).filter(x => x.score >= MIN_SCORE).sort((a, b) => b.score - a.score)
scored(q, index) ==
  Let(pool(q, index),
      LAMBDA p :
        SortDesc(SelectSeq([i \in 1..Len(p) |-> [entry |-> p[i], score |-> boosted(p[i], q)]],
                           LAMBDA x : RatGE(x.score, MIN_SCORE)),
                 LAMBDA x : x.score))

\* /\bpassive\s+voice\b/i.test(q)
asksPassive(q) ==
  Test(toLowerCase(q), <<Wb>> \o <<"p","a","s","s","i","v","e">> \o <<Sp>> \o <<"v","o","i","c","e">> \o <<Wb>>)

\* /\bactive\s+voice\b/i.test(q)
asksActive(q) ==
  Test(toLowerCase(q), <<Wb>> \o <<"a","c","t","i","v","e">> \o <<Sp>> \o <<"v","o","i","c","e">> \o <<Wb>>)

\* focusTerm: the one voice the query names, "" (null) for none or both
focusTerm(q) ==
  IF asksPassive(q) /\ ~asksActive(q) THEN "passive"
  ELSE IF asksActive(q) /\ ~asksPassive(q) THEN "active" ELSE ""

\* /\b(familiar\s+words?|familiar\s+words?\s+and\s+expressions?)\b/i.test(q):
\* what the second alternative matches, the first matches too
excludeTable(q) ==
  TestAny(toLowerCase(q), {<<Wb>> \o <<"f","a","m","i","l","i","a","r">> \o <<Sp>> \o <<"w","o","r","d">> \o <<Wb>>,
                           <<Wb>> \o <<"f","a","m","i","l","i","a","r">> \o <<Sp>> \o <<"w","o","r","d","s">> \o <<Wb>>})

pickOpts(q) == [focusTerm |-> focusTerm(q), excludeTableExamples |-> excludeTable(q)]

\* var maxPick = (isDefinitional || isConceptQuery) ? 260 : 150
maxPick(q) == IF isDefinitional(q) \/ isConceptQuery(q) THEN 260 ELSE 150

\* the length of the second pick: (isDefinitional || isConceptQuery) ? 260 : 160
maxFall(q) == IF isDefinitional(q) \/ isConceptQuery(q) THEN 260 ELSE 160

\* fall || (best.entry.text || '').slice(0, 200)
fallOr(fall, text) == IF fall # <<>> THEN fall ELSE Slice(text, 0, 200)

\* frags after the loop and the fallback, when ex is what the loop got
\* from the best match: ex, else the second pick or the start of the text
fragOr(ex, text, q) ==
  IF ex # <<>> THEN ex
  ELSE simplifyForAnswer(
         fallOr(pickRelevantSentences(text, tokenize(q), maxFall(q), pickOpts(q)), text), "")

\* if (ex) ex = simplifyForAnswer(ex, '')
simplifiedPick(ex) == IF ex # <<>> THEN simplifyForAnswer(ex, "") ELSE ex

\* the fragment taken from the text of the best match
fragment(text, q) ==
  fragOr(simplifiedPick(pickRelevantSentences(text, tokenize(q), maxPick(q), pickOpts(q))),
         text, q)

\* msg.split('\n').map(cleanText).join('\n') when msg holds a line break,
\* cleanText(msg) when it holds none
cleanLines(msg) ==
  IF \E i \in 1..Len(msg) : msg[i] = "\n"
  THEN Let(SplitOn(msg, "\n"),
           LAMBDA lines : Join([i \in 1..Len(lines) |-> cleanText(lines[i])], <<"\n">>))
  ELSE cleanText(msg)

\* the message of an answer: the lead-in and the fragment, cleaned line by
\* line when the fragment holds line breaks
answerMessage(text, q) == cleanLines(AnswerLead \o fragment(text, q))

\* A variant of topics that lists three lessons.
topicsFirstThree(toc) ==
  SelectSeq([i \in 1..Len(Take(toc, 3)) |-> toc[i].lessonTitle], LAMBDA t : t # <<>>)

\* courseToc.slice(0, 4).map(t => t.lessonTitle).filter(Boolean)
topics(toc) ==
  SelectSeq([i \in 1..Len(Take(toc, 4)) |-> toc[i].lessonTitle], LAMBDA t : t # <<>>)

\* x || 'plain language, inclusive communication'
OrDefaultTopics(joined) == IF joined # <<>> THEN joined ELSE DefaultTopics

\* the not-found message with the titles of the first four lessons
notFoundMessage(toc) ==
  NotFoundLead \o OrDefaultTopics(Join(topics(toc), <<",", " ">>)) \o <<".">>

\* What a call of answerFromCourse ends with: the object it returns, or a
\* TypeError it throws
Result(ok, message) == [ok |-> ok, message |-> message, threw |-> FALSE]

TypeError == [ok |-> FALSE, message |-> <<>>, threw |-> TRUE]

\* A variant of noMatch that never holds: the guard of line 265 left out.
neverNoMatch(sc) == FALSE

\* if (scored.length === 0)
noMatch(sc) == Len(sc) = 0

\* var best = scored[0]: undefined for an empty array
first(sc) == IF Len(sc) = 0 THEN Undef ELSE sc[1]

\* the answer from best on; reading best.entry of undefined is a TypeError
answerFrom(best, q) ==
  IF best = Undef THEN TypeError ELSE Result(TRUE, answerMessage(best.entry.text, q))

\* the objectives branch for the entry obj in a sequence of at most one,
\* and what follows it when there is none
afterObjectives(q, index, toc, obj) ==
  IF obj # <<>>
  THEN Result(TRUE, ObjectivesLead \o simplifyForAnswer(obj[1].text, "objectives"))
  ELSE IF askInclusive(q) /\ Len(inclusiveOnly(q, index)) = 0
       THEN Result(FALSE, InclusiveNotFound)
  ELSE Let(scored(q, index),
           LAMBDA sc : IF noMatch(sc) THEN Result(FALSE, notFoundMessage(toc))
                       ELSE answerFrom(first(sc), q))

\* A variant of answerFromCourse that looks at the query before it looks
\* at the index.
answerFromCourseQueryFirst(q, index, toc) ==
  IF Len(tokenize(q)) = 0 THEN Result(FALSE, PleaseAsk)
  ELSE IF Len(index) = 0 THEN Result(FALSE, StillLoading)
  ELSE afterObjectives(q, index, toc,
                       IF isObjectives(q) THEN objectivesEntry(q, index) ELSE <<>>)

\* answerFromCourse(q), with the courseIndex and courseToc it reads
answerFromCourse(q, index, toc) ==
  IF Len(index) = 0 THEN Result(FALSE, StillLoading)
  ELSE IF Len(tokenize(q)) = 0 THEN Result(FALSE, PleaseAsk)
  ELSE afterObjectives(q, index, toc,
                       IF isObjectives(q) THEN objectivesEntry(q, index) ELSE <<>>)

\* ------------------------------------------------------------------------
\* Course trees and queries
\* ------------------------------------------------------------------------

PlainCourse ==
  Obj([lessons |-> Arr(<<
      Obj([id |-> Str(<<"l","1">>), title |-> Str(<<"I","n","t","r","o","d","u","c","t","i","o","n">>), items |-> Arr(<<
          Obj([id |-> Str(<<"b","1">>), items |-> Arr(<<
              Obj([heading |-> Str(<<"<","h","2",">","W","e","l","c","o","m","e","<","/","h","2",">">>)]),
              Obj([paragraph |-> Str(<<"<","p",">","I","n"," ","t","h","i","s"," ","c","o","u","r","s","e",","," ","y","o","u","'","l","l"," ","l","e","a","r","n"," ","h","o","w"," ","w","o","r","d","s"," ","s","h","a","p","e"," ","w","o","r","k","p","l","a","c","e"," ","c","o","m","m","u","n","i","c","a","t","i","o","n",".","<","/","p",">">>)]) >>)]),
          Obj([id |-> Str(<<"b","2">>), items |-> Arr(<<
              Obj([paragraph |-> Str(<<"<","p",">","A","t"," ","t","h","e"," ","e","n","d"," ","o","f"," ","t","h","e"," ","c","o","u","r","s","e",","," ","y","o","u"," ","w","i","l","l"," ","b","e"," ","a","b","l","e"," ","t","o",":"," ","R","e","c","o","g","n","i","s","e"," ","p","l","a","i","n"," ","l","a","n","g","u","a","g","e","."," ","A","p","p","l","y"," ","s","h","o","r","t"," ","s","e","n","t","e","n","c","e","s","."," ","U","s","e"," ","i","n","c","l","u","s","i","v","e"," ","l","a","n","g","u","a","g","e"," ","a","t"," ","w","o","r","k",".","<","/","p",">">>)]) >>)]) >>)]),
      Obj([id |-> Str(<<"l","2">>), title |-> Str(<<"<","b",">","P","l","a","i","n"," ","L","a","n","g","u","a","g","e","<","/","b",">">>), items |-> Arr(<<
          Obj([id |-> Str(<<"b","3">>), items |-> Arr(<<
              Obj([heading |-> Str(<<"<","h","2",">","W","h","a","t"," ","i","s"," ","P","l","a","i","n"," ","L","a","n","g","u","a","g","e","?","<","/","h","2",">">>)]),
              Obj([paragraph |-> Str(<<"<","p",">","P","l","a","i","n"," ","l","a","n","g","u","a","g","e"," ","i","s"," ","c","l","e","a","r"," ","w","r","i","t","i","n","g"," ","t","h","a","t"," ","r","e","a","d","e","r","s"," ","u","n","d","e","r","s","t","a","n","d"," ","t","h","e"," ","f","i","r","s","t"," ","t","i","m","e","."," ","I","t"," ","a","v","o","i","d","s"," ","j","a","r","g","o","n"," ","&","a","m","p",";"," ","l","o","n","g"," ","w","o","r","d","s",".","<","/","p",">">>)]),
              Obj([caption |-> Str(<<"A"," ","p","l","a","i","n"," ","l","a","n","g","u","a","g","e"," ","p","o","s","t","e","r">>)]) >>)]) >>)]),
      Obj([id |-> Str(<<"l","3">>), title |-> Str(<<"I","n","c","l","u","s","i","v","e"," ","L","a","n","g","u","a","g","e">>), items |-> Arr(<<
          Obj([id |-> Str(<<"b","4">>), items |-> Arr(<<
              Obj([paragraph |-> Str(<<"<","p",">","I","n","c","l","u","s","i","v","e"," ","l","a","n","g","u","a","g","e"," ","a","v","o","i","d","s"," ","w","o","r","d","s"," ","t","h","a","t"," ","e","x","c","l","u","d","e"," ","p","e","o","p","l","e","."," ","I","t"," ","h","e","l","p","s"," ","c","r","e","a","t","e"," ","r","e","s","p","e","c","t",".","<","/","p",">">>)]) >>)]) >>)]),
      Obj([id |-> Str(<<"l","4">>), title |-> Str(<<"K","e","y"," ","P","r","i","n","c","i","p","l","e","s">>), items |-> Arr(<<
          Obj([id |-> Str(<<"b","5">>), items |-> Arr(<<
              Obj([heading |-> Str(<<"<","h","2",">","S","h","o","r","t"," ","S","e","n","t","e","n","c","e","s","<","/","h","2",">">>)]),
              Obj([paragraph |-> Str(<<"<","p",">","U","s","e"," ","s","h","o","r","t"," ","s","e","n","t","e","n","c","e","s","."," ","T","h","e","y"," ","a","r","e"," ","e","a","s","y"," ","t","o"," ","r","e","a","d",".","<","/","p",">">>)]),
              Obj([paragraph |-> Str(<<"<","p",">","S","h","o","r","t"," ","s","e","n","t","e","n","c","e","s"," ","h","e","l","p"," ","b","u","s","y"," ","r","e","a","d","e","r","s",".","<","/","p",">">>)]),
              Obj([slides |-> Arr(<<
                  Obj([description |-> Str(<<"A","c","t","i","v","e"," ","v","o","i","c","e"," ","n","a","m","e","s"," ","t","h","e"," ","a","c","t","o","r",".">>), items |-> Arr(<<
                      Obj([heading |-> Str(<<"<","h","2",">","A","c","t","i","v","e"," ","V","o","i","c","e","<","/","h","2",">">>)]) >>)]) >>)]) >>)]) >>)]),
      Obj([id |-> Str(<<"l","5">>), title |-> Str(<<"Q","u","i","z">>), items |-> Arr(<<
          Obj([id |-> Str(<<"b","6">>), items |-> Arr(<<
              Obj([type |-> Str(<<"k","n","o","w","l","e","d","g","e","C","h","e","c","k">>), title |-> Str(<<"W","h","i","c","h"," ","s","e","n","t","e","n","c","e"," ","u","s","e","s"," ","a","c","t","i","v","e"," ","v","o","i","c","e","?">>), answers |-> Arr(<<
                  Obj([title |-> Str(<<"T","h","e"," ","d","o","g"," ","b","i","t"," ","t","h","e"," ","m","a","n",".">>), correct |-> Bool(TRUE)]),
                  Obj([title |-> Str(<<"T","h","e"," ","m","a","n"," ","w","a","s"," ","b","i","t","t","e","n",".">>), correct |-> Bool(FALSE)]) >>)]) >>)]) >>)]) >>)])

JargonCourse ==
  Obj([lessons |-> Arr(<<
      Obj([id |-> Str(<<"j","1">>), title |-> Str(<<"G","o","a","l","s">>), items |-> Arr(<<
          Obj([id |-> Str(<<"j","b","1">>), items |-> Arr(<<
              Obj([paragraph |-> Str(<<"<","p",">","A","t"," ","t","h","e"," ","e","n","d"," ","o","f"," ","t","h","e"," ","c","o","u","r","s","e"," ","y","o","u"," ","w","i","l","l"," ","r","e","c","o","g","n","i","s","e"," ","j","a","r","g","o","n","."," ","Y","o","u"," ","w","i","l","l"," ","a","p","p","l","y"," ","p","l","a","i","n"," ","w","o","r","d","s",".","<","/","p",">">>)]),
              Obj([paragraph |-> Str(<<"<","p",">","P","l","a","i","n"," ","l","a","n","g","u","a","g","e"," ","i","s"," ","c","l","e","a","r",".","<","/","p",">">>)]) >>)]) >>)]),
      Obj([id |-> Str(<<"j","2">>), title |-> Str(<<"J","a","r","g","o","n">>), items |-> Arr(<<
          Obj([id |-> Str(<<"j","b","2">>), items |-> Arr(<<
              Obj([heading |-> Str(<<"<","h","2",">","J","a","r","g","o","n","<","/","h","2",">">>)]),
              Obj([paragraph |-> Str(<<"<","p",">","J","a","r","g","o","n"," ","c","o","n","f","u","s","e","s"," ","r","e","a","d","e","r","s",".","<","/","p",">">>)]) >>)]) >>)]) >>)])

EmptyTextCourse ==
  Obj([lessons |-> Arr(<<
      Obj([id |-> Str(<<"e","1">>), title |-> Str(<<>>), items |-> Arr(<<
          Obj([id |-> Str(<<"e","b","1">>), items |-> Arr(<<
              Obj([heading |-> Str(<<"<","b","r",">">>)]),
              Obj([paragraph |-> Str(<<" ","&","n","b","s","p",";"," ">>)]),
              Obj([caption |-> Num(5)]),
              Obj([paragraph |-> Str(<<"<","p",">","R","e","a","d","e","r","s"," ","l","i","k","e"," ","p","l","a","i","n"," ","w","o","r","d","s",".","<","/","p",">">>)]) >>)]) >>)]) >>)])

NullBlockCourse ==
  Obj([lessons |-> Arr(<<
      Obj([id |-> Str(<<"n","1">>), title |-> Str(<<"P","l","a","i","n"," ","L","a","n","g","u","a","g","e">>), items |-> Arr(<<
          Obj([id |-> Str(<<"n","b","1">>), items |-> Arr(<<
              Obj([paragraph |-> Str(<<"<","p",">","P","l","a","i","n"," ","l","a","n","g","u","a","g","e"," ","i","s"," ","c","l","e","a","r"," ","w","r","i","t","i","n","g",".","<","/","p",">">>)]) >>)]),
          Null,
          Obj([id |-> Str(<<"n","b","3">>), items |-> Arr(<<
              Obj([paragraph |-> Str(<<"<","p",">","J","a","r","g","o","n"," ","c","o","n","f","u","s","e","s"," ","r","e","a","d","e","r","s",".","<","/","p",">">>)]) >>)]) >>)]),
      Obj([id |-> Str(<<"n","2">>), title |-> Str(<<"L","a","t","e","r">>), items |-> Arr(<<
          Obj([id |-> Str(<<"n","b","4">>), items |-> Arr(<<
              Obj([paragraph |-> Str(<<"<","p",">","S","h","o","r","t"," ","s","e","n","t","e","n","c","e","s"," ","h","e","l","p",".","<","/","p",">">>)]) >>)]) >>)]) >>)])

BadAnswersCourse ==
  Obj([lessons |-> Arr(<<
      Obj([id |-> Str(<<"a","1">>), title |-> Str(<<"Q","u","i","z">>), items |-> Arr(<<
          Obj([id |-> Str(<<"a","b","1">>), items |-> Arr(<<
              Obj([title |-> Str(<<"W","h","i","c","h"," ","w","o","r","d","s"," ","a","r","e"," ","p","l","a","i","n","?">>), answers |-> Num(7)]),
              Obj([paragraph |-> Str(<<"<","p",">","P","l","a","i","n"," ","w","o","r","d","s"," ","a","r","e"," ","s","h","o","r","t",".","<","/","p",">">>)]) >>)]) >>)]) >>)])

SparseCourse ==
  Obj([lessons |-> Arr(<<
      Obj(<<>>),
      Obj([id |-> Str(<<"s","1">>), items |-> Arr(<<
          Obj([id |-> Str(<<"s","b","0">>)]),
          Obj([items |-> Arr(<<
              Obj([heading |-> Str(<<"<","h","2",">","T","o","p","i","c","<","/","h","2",">">>)]),
              Null,
              Obj(<<>>),
              Obj([unknown |-> Str(<<"x">>)]),
              Obj([title |-> Str(<<"N","o","t"," ","a"," ","q","u","i","z">>)]),
              Obj([title |-> Str(<<"P","i","c","k"," ","o","n","e">>), answers |-> Str(<<"a","b">>)]),
              Obj([slides |-> Str(<<"n","o","n","e">>), items |-> Arr(<<
                  Obj([paragraph |-> Str(<<"<","p",">","P","l","a","i","n"," ","w","o","r","d","s"," ","w","i","n",".","<","/","p",">">>)]) >>)]) >>)]) >>)]) >>)])

BlankCourse ==
  Obj([lessons |-> Arr(<<
      Obj([id |-> Str(<<"k","1">>), title |-> Str(<<"B","l","a","n","k">>), items |-> Arr(<<
          Obj([id |-> Str(<<"k","b","1">>), items |-> Arr(<<
              Obj(<<>>) >>)]) >>)]) >>)])

NullLessonCourse ==
  Obj([lessons |-> Arr(<<
      Null >>)])

KeyPrinciplesCourse ==
  Obj([lessons |-> Arr(<<
      Obj([id |-> Str(<<"p","1">>), title |-> Str(<<"K","e","y"," ","P","r","i","n","c","i","p","l","e","s">>), items |-> Arr(<<
          Obj([id |-> Str(<<"p","b","1">>), items |-> Arr(<<
              Obj([paragraph |-> Str(<<"<","p",">","S","h","o","r","t"," ","S","e","n","t","e","n","c","e","s","A","c","t","i","v","e"," ","V","o","i","c","e","F","a","m","i","l","i","a","r"," ","W","o","r","d","s","<","/","p",">">>)]) >>)]) >>)]) >>)])

\* the course trees a fetch may deliver
Courses ==
  {PlainCourse,
   JargonCourse,
   EmptyTextCourse,
   NullBlockCourse,
   BadAnswersCourse,
   SparseCourse,
   BlankCourse,
   NullLessonCourse,
   KeyPrinciplesCourse}

\* what the fetch may resolve with: a tree, a document that wraps the tree
\* in its course property, or nothing
Datas == Courses \cup {Obj([course |-> PlainCourse]), Null}

\* the queries asked
Queries ==
  {<<>>,
   <<"!","!">>,
   <<"x","y","z","a","b","c","1","2","3">>,
   <<"w","h","a","t"," ","i","s"," ","p","l","a","i","n"," ","l","a","n","g","u","a","g","e">>,
   <<"i","n","c","l","u","s","i","v","e"," ","l","a","n","g","u","a","g","e"," ","m","e","a","n","i","n","g">>,
   <<"i","n","c","l","u","s","i","v","e"," ","o","b","j","e","c","t","i","v","e","s">>,
   <<"g","o","a","l","s">>,
   <<"d","e","f","i","n","e"," ","x","y","z","a","b","c">>,
   <<"s","h","o","r","t"," ","s","e","n","t","e","n","c","e","s">>,
   <<"a","c","t","i","v","e"," ","v","o","i","c","e"," ","e","x","a","m","p","l","e">>,
   <<"j","a","r","g","o","n">>,
   <<"p","l","a","i","n"," ","z","z","z"," ","q","q","q">>,
   <<"t","h","e"," ","d","o","g"," ","b","i","t"," ","t","h","e"," ","m","a","n">>,
   <<"p","r","a","c","t","i","c","e"," ","t","h","e"," ","d","o","g"," ","b","i","t"," ","t","h","e"," ","m","a","n">>}

\* what the input field may hold when the user sends
Typed == Queries \cup {<<" "," ">>, <<" ","j","a","r","g","o","n"," ">>}

\* ------------------------------------------------------------------------
\* The accessibility settings: src/scormcontent/accessibility-portfolio.js
\* ------------------------------------------------------------------------

STORAGE_KEY == "accessibilitySettings"

\* Numbers that are no integers: NaN, and n + 0.5 as Half(n)
NaN == [t |-> "NaN"]

Half(n) == [t |-> "half", n |-> n]

\* typeof v === 'number'
IsNumber(v) == v.t \in {"number", "half", "NaN"}

\* the levels and the kind of each setting
settingsConfig ==
  [contrast        |-> [levels |-> 2, binary |-> FALSE],
   largeText       |-> [levels |-> 2, binary |-> FALSE],
   textSpacing     |-> [levels |-> 2, binary |-> FALSE],
   dyslexia        |-> [levels |-> 2, binary |-> FALSE],
   focusIndicator  |-> [levels |-> 2, binary |-> FALSE],
   hideImages      |-> [levels |-> 1, binary |-> TRUE],
   textToSpeech    |-> [levels |-> 1, binary |-> TRUE],
   blueLightFilter |-> [levels |-> 2, binary |-> FALSE]]

\* const state = { contrast: 0, ... }: what state holds when the script starts
DefaultState == [key \in DOMAIN settingsConfig |-> Num(0)]

\* JSON.stringify(value) for an object of numbers, as the members the text
\* holds: NaN is written as null
JSONstringify(value) ==
  [t |-> "string", members |-> [key \in DOMAIN value |-> IF value[key].t = "NaN" THEN Null ELSE value[key]]]

\* JSON.parse(item) for such a text
JSONparse(item) == Obj(item.members)

\* localStorage.getItem(key): null for a key that was never set
getItem(store, key) == store[key]

\* storage.get(key) with a working localStorage: item ? JSON.parse(item) : null
storageGet(store, key) ==
  IF getItem(store, key) = Null THEN Null ELSE JSONparse(getItem(store, key))

\* storage.set(key, value) with a working localStorage
storageSet(store, key, value) == [store EXCEPT ![key] = JSONstringify(value)]

\* loadSettings(): every key of state that saved holds with a number takes it
loadSettings(st, saved) ==
  IF Truthy(saved) /\ saved.t = "object"
  THEN [key \in DOMAIN st |->
          IF key \in DOMAIN saved.f /\ IsNumber(saved.f[key]) THEN saved.f[key] ELSE st[key]]
  ELSE st

\* saveSettings()
saveSettings(store, st) == storageSet(store, STORAGE_KEY, st)

\* v === 0
isZero(v) == v.t = "number" /\ v.n = 0

\* a % m for m > 0: the remainder has the sign of a
rem(a, m) == IF a >= 0 THEN a % m ELSE 0 - ((0 - a) % m)

\* A variant of nextLevel that takes the remainder by config.levels.
nextLevelShort(oldValue, levels) == Num((oldValue.n + 1) % levels)

\* (oldValue + 1) % (config.levels + 1); for n + 0.5 the remainder of n + 1.5,
\* which for n + 1.5 < 0 is that of n + 2, less 0.5
nextLevel(oldValue, levels) ==
  CASE oldValue.t = "NaN" -> NaN
    [] oldValue.t = "half" ->
         IF oldValue.n + 1 >= 0 THEN Half(rem(oldValue.n + 1, levels + 1))
         ELSE Half(rem(oldValue.n + 2, levels + 1) - 1)
    [] OTHER -> Num(rem(oldValue.n + 1, levels + 1))

\* the assignment of toggleSetting(setting), for a setting that is configured
toggled(st, setting) ==
  IF settingsConfig[setting].binary
  THEN [st EXCEPT ![setting] = IF isZero(st[setting]) THEN Num(1) ELSE Num(0)]
  ELSE [st EXCEPT ![setting] = nextLevel(st[setting], settingsConfig[setting].levels)]

\* toggleSetting(setting): state after the assignment; a setting that is
\* not configured leaves it alone
toggleSetting(st, setting) ==
  IF setting \notin DOMAIN settingsConfig \/ setting \notin DOMAIN st THEN st
  ELSE toggled(st, setting)

\* typeof value === 'number' ? value : (value ? 1 : 0)
numberOf(value) == IF IsNumber(value) THEN value ELSE IF Truthy(value) THEN Num(1) ELSE Num(0)

\* Math.round(v): a half goes up
round(v) == CASE v.t = "number" -> v [] v.t = "half" -> Num(v.n + 1) [] OTHER -> NaN

\* Math.max(0, Math.min(maxL, v)): NaN stays NaN
clamped(v, maxL) ==
  IF v.t = "NaN" THEN NaN
  ELSE Num(IF v.n > maxL THEN maxL ELSE IF v.n < 0 THEN 0 ELSE v.n)

\* v ? 1 : 0 for a number v
oneIf(v) == IF v.t = "NaN" \/ isZero(v) THEN Num(0) ELSE Num(1)

\* setSetting(key, value): state after the assignment; config.levels is 1 or
\* 2, so config.levels || 2 is config.levels
setSetting(st, key, value) ==
  IF key = "" \/ key \notin DOMAIN st \/ key \notin DOMAIN settingsConfig THEN st
  ELSE IF settingsConfig[key].binary
       THEN [st EXCEPT ![key] = oneIf(numberOf(value))]
       ELSE [st EXCEPT ![key] = clamped(round(numberOf(value)), settingsConfig[key].levels)]

\* resetAll(): every key of state is set to 0
resetAll(st) == [key \in DOMAIN st |-> Num(0)]


\* ------------------------------------------------------------------------
\* Navitoir: handleNavitoirSubmit of the AI Assistant & Navitoir widget
\* ------------------------------------------------------------------------

\* the two signs that begin a reply
CheckMark == "CHECKMARK"

InfoMark == "INFOMARK"

\* var any = function(terms) { return terms.some(function(t) { return t && q.includes(t); }); }
any(q, terms) == \E t \in terms : t # <<>> /\ Includes(q, t)

\* the terms that open the accessibility panel
OpenTerms == {<<"a","c","c","e","s","s","i","b","i","l","i","t","y">>, <<"a","1","1","y">>, <<"o","p","e","n"," ","a","c","c","e","s","s","i","b","i","l","i","t","y">>, <<"o","p","e","n"," ","a","1","1","y">>}

\* var a11yMap = [ ... ]
a11yMap ==
  << [terms |-> {<<"c","o","n","t","r","a","s","t">>}, key |-> "contrast", name |-> <<"C","o","n","t","r","a","s","t">>],
     [terms |-> {<<"t","e","x","t"," ","s","i","z","e">>, <<"l","a","r","g","e"," ","t","e","x","t">>, <<"f","o","n","t"," ","s","i","z","e">>, <<"b","i","g","g","e","r"," ","t","e","x","t">>},
      key |-> "largeText", name |-> <<"L","a","r","g","e"," ","T","e","x","t">>],
     [terms |-> {<<"t","e","x","t"," ","s","p","a","c","i","n","g">>, <<"s","p","a","c","i","n","g">>, <<"l","e","t","t","e","r"," ","s","p","a","c","i","n","g">>},
      key |-> "textSpacing", name |-> <<"T","e","x","t"," ","S","p","a","c","i","n","g">>],
     [terms |-> {<<"d","y","s","l","e","x","i","a">>, <<"d","y","s","l","e","x","i","a"," ","f","o","n","t">>}, key |-> "dyslexia", name |-> <<"D","y","s","l","e","x","i","a"," ","F","r","i","e","n","d","l","y">>],
     [terms |-> {<<"f","o","c","u","s">>, <<"f","o","c","u","s"," ","i","n","d","i","c","a","t","o","r">>, <<"f","o","c","u","s"," ","r","i","n","g">>},
      key |-> "focusIndicator", name |-> <<"F","o","c","u","s"," ","I","n","d","i","c","a","t","o","r">>],
     [terms |-> {<<"h","i","d","e"," ","i","m","a","g","e","s">>, <<"i","m","a","g","e","s">>}, key |-> "hideImages", name |-> <<"H","i","d","e"," ","I","m","a","g","e","s">>],
     [terms |-> {<<"t","e","x","t"," ","t","o"," ","s","p","e","e","c","h">>, <<"t","t","s">>, <<"r","e","a","d"," ","a","l","o","u","d">>},
      key |-> "textToSpeech", name |-> <<"T","e","x","t"," ","t","o"," ","S","p","e","e","c","h">>],
     [terms |-> {<<"b","l","u","e"," ","l","i","g","h","t">>, <<"b","l","u","e"," ","l","i","g","h","t"," ","f","i","l","t","e","r">>, <<"b","l","u","e","l","i","g","h","t">>},
      key |-> "blueLightFilter", name |-> <<"B","l","u","e"," ","L","i","g","h","t"," ","F","i","l","t","e","r">>] >>

\* the words of /(?:level|stufe|auf|lvl|to)\s*(\d+)/i
LevelWords == {<<"l","e","v","e","l">>, <<"s","t","u","f","e">>, <<"a","u","f">>, <<"l","v","l">>, <<"t","o">>}

IsDigit(c) == c \in DigitSet

\* the positions where the digits of a match of the pattern begin: one of
\* the words, any whitespace, and a digit
LevelDigits(q) ==
  {d \in 1..Len(q) :
     /\ IsDigit(q[d])
     /\ \E w \in LevelWords : \E i \in 1..d :
           LitAtCI(q, i, w) /\ SkipSpaces(q, i + Len(w)) = d}

\* the digits in their order
Digits == <<"0","1","2","3","4","5","6","7","8","9">>

\* the value of one digit
DigitValue(c) == (CHOOSE k \in 1..10 : Digits[k] = c) - 1

\* parseInt(digits, 10), of a run of digits
RECURSIVE parseInt(_)

parseInt(digits) ==
  IF digits = <<>> THEN 0
  ELSE parseInt(SubSeq(digits, 1, Len(digits) - 1)) * 10 + DigitValue(digits[Len(digits)])

\* group 1 of the leftmost match that begins its digits at d: \d+ takes the
\* whole run
levelMatch(q, d) == SubSeq(q, d, Scan(q, d, IsDigit, FALSE) - 1)

wantUp(q) == any(q, {<<"i","n","c","r","e","a","s","e">>, <<"m","a","x">>, <<"u","p">>, <<"m","o","r","e">>, <<"o","n">>, <<"t","u","r","n"," ","o","n">>, <<"e","n","a","b","l","e">>})

wantDown(q) == any(q, {<<"d","e","c","r","e","a","s","e">>, <<"r","e","d","u","c","e">>, <<"l","o","w","e","r">>, <<"l","e","s","s">>, <<"o","f","f">>, <<"t","u","r","n"," ","o","f","f">>, <<"d","i","s","a","b","l","e">>})

\* st[key] || 0, for a state that holds whole numbers
curOf(value) == IF value.t = "number" THEN value.n ELSE 0

\* Math.max(0, Math.min(top, n))
between(top, n) == IF n > top THEN top ELSE IF n < 0 THEN 0 ELSE n

\* v = binary ? 0 : Math.max(0, cur - 1)
lowered(binary, cur) == IF binary THEN 0 ELSE between(cur, cur - 1)

\* v = binary ? 1 : Math.min(maxL, cur + 1)
raised(binary, maxL, cur) == IF binary THEN 1 ELSE IF cur + 1 > maxL THEN maxL ELSE cur + 1

\* the level v that the request asks for, for a setting that is at cur
wantedLevel(q, binary, maxL, cur) ==
  IF LevelDigits(q) # {}
  THEN between(IF binary THEN 1 ELSE maxL, parseInt(levelMatch(q, Min(LevelDigits(q)))))
  ELSE IF wantDown(q) THEN lowered(binary, cur)
  ELSE IF wantUp(q) \/ cur = 0 THEN raised(binary, maxL, cur)
  ELSE cur

\* what a call of handleNavitoirSubmit gives and does: the reply, the state
\* of the accessibility settings after it, whether A11yPortfolio.openPanel
\* was called, and the lesson and block that tryNavigate was called with
Reply(message, closePanel, st, opened, target) ==
  [message |-> message, closePanel |-> closePanel, state |-> st,
   openPanel |-> opened, navigate |-> target]

NoTarget == [lessonId |-> Undef, blockId |-> Undef]

OffOrOn(level) == IF level = 0 THEN <<"o","f","f">> ELSE <<"o","n">>

\* the two returns at the end of the body of the loop over a11yMap
settingReply(m, st, cur, v) ==
  IF v # cur
  THEN Reply(<<CheckMark, " ">> \o m.name \o <<" ">> \o OffOrOn(v), FALSE,
             setSetting(st, m.key, Num(v)), FALSE, NoTarget)
  ELSE Reply(<<InfoMark, " ">> \o m.name \o <<" ","i","s"," ","a","l","r","e","a","d","y"," ">> \o OffOrOn(cur) \o <<".">>, FALSE,
             st, FALSE, NoTarget)

\* b.title || 'section'
OrSectionWord(s) == IF s # <<>> THEN s ELSE <<"s","e","c","t","i","o","n">>

\* the loop over the blocks of a lesson: the first block whose title is in q
RECURSIVE eachTocBlock(_, _, _, _, _)

\* the loop over courseToc: the first lesson, or block of it, whose title
\* is in q; and the help text when there is none
RECURSIVE eachTocLesson(_, _, _, _)

eachTocBlock(q, st, toc, li, bi) ==
  IF bi > Len(toc[li].blocks) THEN eachTocLesson(q, st, toc, li + 1)
  ELSE IF toc[li].blocks[bi].title # <<>> /\ Includes(q, toLowerCase(toc[li].blocks[bi].title))
  THEN Reply(<<CheckMark, " ">> \o <<"N","a","v","i","g","a","t","i","n","g"," ","t","o"," ">> \o OrSectionWord(toc[li].blocks[bi].title) \o <<Ellipsis>>,
             TRUE, st, FALSE,
             [lessonId |-> toc[li].lessonId, blockId |-> toc[li].blocks[bi].blockId])
  ELSE eachTocBlock(q, st, toc, li, bi + 1)

\* first ? first.lessonTitle : 'Introduction'
FirstTitle(toc) == IF toc # <<>> THEN toc[1].lessonTitle ELSE <<"I","n","t","r","o","d","u","c","t","i","o","n">>

eachTocLesson(q, st, toc, li) ==
  IF li > Len(toc)
  THEN Reply(<<"I"," ","c","a","n"," ","n","a","v","i","g","a","t","e"," ","t","o"," ","a"," ","l","e","s","s","o","n"," ","o","r"," ","c","o","n","t","r","o","l"," ","a","c","c","e","s","s","i","b","i","l","i","t","y","."," ","T","r","y",":"," ","\"","G","o"," ","t","o"," ">> \o FirstTitle(toc)
               \o <<"\"",","," ","\"","O","p","e","n"," ","a","c","c","e","s","s","i","b","i","l","i","t","y","\"",","," ","\"","I","n","c","r","e","a","s","e"," ","t","e","x","t"," ","s","i","z","e","\"",".">>,
             FALSE, st, FALSE, NoTarget)
  ELSE IF toc[li].lessonTitle # <<>> /\ Includes(q, toLowerCase(toc[li].lessonTitle))
  THEN Reply(<<CheckMark, " ">> \o <<"N","a","v","i","g","a","t","i","n","g"," ","t","o"," ">> \o toc[li].lessonTitle \o <<Ellipsis>>,
             TRUE, st, FALSE, [lessonId |-> toc[li].lessonId, blockId |-> Null])
  ELSE eachTocBlock(q, st, toc, li, 1)

\* the loop over a11yMap: the first entry with a term in q answers
RECURSIVE eachSetting(_, _, _, _)

eachSetting(q, st, toc, i) ==
  IF i > Len(a11yMap) THEN eachTocLesson(q, st, toc, 1)
  ELSE IF ~(\E t \in a11yMap[i].terms : Includes(q, t)) THEN eachSetting(q, st, toc, i + 1)
  ELSE IF a11yMap[i].key \notin DOMAIN settingsConfig \/ a11yMap[i].key \notin DOMAIN st
  THEN eachSetting(q, st, toc, i + 1)
  ELSE settingReply(a11yMap[i], st, curOf(st[a11yMap[i].key]),
                    wantedLevel(q, settingsConfig[a11yMap[i].key].binary,
                                settingsConfig[a11yMap[i].key].levels,
                                curOf(st[a11yMap[i].key])))

\* the body of handleNavitoirSubmit after q = (raw || '').toLowerCase().trim()
submitted(q, st, toc) ==
  IF q = <<>> THEN Reply(<<"T","y","p","e"," ","a"," ","r","e","q","u","e","s","t"," ","o","r"," ","u","s","e"," ","a"," ","c","h","i","p",".">>, FALSE, st, FALSE, NoTarget)
  ELSE IF any(q, OpenTerms)
  THEN Reply(<<CheckMark, " ">> \o <<"O","p","e","n","i","n","g"," ","a","c","c","e","s","s","i","b","i","l","i","t","y"," ","p","a","n","e","l">> \o <<Ellipsis>>, TRUE, st, TRUE, NoTarget)
  ELSE eachSetting(q, st, toc, 1)

\* handleNavitoirSubmit(raw), on a page whose accessibility settings are st
\* and whose table of contents is toc
handleNavitoirSubmit(raw, st, toc) == submitted(Trim(toLowerCase(raw)), st, toc)

\* ------------------------------------------------------------------------
\* The accessibility settings as they are applied: styles, text to speech,
\* option buttons, announcements
\* ------------------------------------------------------------------------

\* settingsConfig[setting].label
labels ==
  [contrast        |-> <<"C","o","n","t","r","a","s","t">>,
   largeText       |-> <<"L","a","r","g","e"," ","T","e","x","t">>,
   textSpacing     |-> <<"T","e","x","t"," ","S","p","a","c","i","n","g">>,
   dyslexia        |-> <<"D","y","s","l","e","x","i","a"," ","F","r","i","e","n","d","l","y">>,
   focusIndicator  |-> <<"F","o","c","u","s"," ","I","n","d","i","c","a","t","o","r">>,
   hideImages      |-> <<"H","i","d","e"," ","I","m","a","g","e","s">>,
   textToSpeech    |-> <<"T","e","x","t"," ","t","o"," ","S","p","e","e","c","h">>,
   blueLightFilter |-> <<"B","l","u","e"," ","L","i","g","h","t"," ","F","i","l","t","e","r">>]

\* v === n
isLevel(v, n) == v.t = "number" /\ v.n = n

\* currentLevel > 0
aboveZero(v) == (v.t = "number" /\ v.n > 0) \/ (v.t = "half" /\ v.n >= 0)

\* the digits of a whole number that is not negative
RECURSIVE decimal(_)

decimal(n) == IF n < 10 THEN <<Digits[n + 1]>> ELSE decimal(n \div 10) \o <<Digits[(n % 10) + 1]>>

\* a number in a template literal or joined to a string
numberText(v) ==
  CASE v.t = "NaN" -> <<"N","a","N">>
    [] v.t = "half" -> IF v.n >= 0 THEN decimal(v.n) \o <<".","5">>
                       ELSE IF v.n = 0 - 1 THEN <<"-","0",".","5">>
                       ELSE <<"-">> \o decimal(0 - v.n - 1) \o <<".","5">>
    [] OTHER -> IF v.n >= 0 THEN decimal(v.n) ELSE <<"-">> \o decimal(0 - v.n)

\* state[setting] === 0 ? 'off' : `level ${state[setting]}`
levelName(v) == IF isZero(v) THEN <<"o","f","f">> ELSE <<"l","e","v","e","l"," ">> \o numberText(v)

\* `${config.label} ${level}`
announcementOf(setting, v) == labels[setting] \o <<" ">> \o levelName(v)

ResetAnnouncement == <<"A","l","l"," ","a","c","c","e","s","s","i","b","i","l","i","t","y"," ","s","e","t","t","i","n","g","s"," ","h","a","v","e"," ","b","e","e","n"," ","r","e","s","e","t">>

\* the settings that are applied with a style: the filter of the app for
\* contrast, a style element for each of the others
StyleKeys == DOMAIN settingsConfig \ {"textToSpeech"}

\* what the apply function of a setting leaves for level v: 0 for no filter
\* and no style element, 1 for the style of level 1, 2 for the other style
styleOf(key, v) ==
  IF key = "contrast" THEN (IF isLevel(v, 1) THEN 1 ELSE IF isLevel(v, 2) THEN 2 ELSE 0)
  ELSE IF isZero(v) THEN 0
  ELSE IF key = "hideImages" \/ isLevel(v, 1) THEN 1
  ELSE 2

\* applyFilters() ... applyBlueLightFilter()
applyStyles(st) == [key \in StyleKeys |-> styleOf(key, st[key])]

\* what updateUI() gives an option: aria-pressed, and the level that its
\* indicators and its aria-label are drawn from
drawn(v) == [pressed |-> aboveZero(v), level |-> v]

\* updateUI(), for a panel with an option for each setting
updateUI(st) == [key \in DOMAIN st |-> drawn(st[key])]

\* enableTextToSpeech()
enableTextToSpeech(p, available) ==
  IF ~available THEN p
  ELSE IF p.textToSpeechHandler THEN p
  ELSE [p EXCEPT !.textToSpeechHandler = TRUE, !.listeners = @ + 1]

\* disableTextToSpeech()
disableTextToSpeech(p) ==
  IF p.textToSpeechHandler THEN [p EXCEPT !.textToSpeechHandler = FALSE, !.listeners = @ - 1]
  ELSE p

\* the callback that the debounced function requests: the styles, then
\* text to speech
applied(p, available) ==
  IF isLevel(p.state.textToSpeech, 1)
  THEN enableTextToSpeech([p EXCEPT !.styles = applyStyles(p.state)], available)
  ELSE disableTextToSpeech([p EXCEPT !.styles = applyStyles(p.state)])

\* requestAnimationFrame(callback)
requestAnimationFrame(p, callback) == [p EXCEPT !.frames = Append(@, callback)]

\* the callback that toggleSetting, setSetting and resetAll request
Apply(fn, setting) == [fn |-> "applyAllSettings", of |-> fn, setting |-> setting]

\* the end of toggleSetting, setSetting and resetAll when the state is st:
\* saveSettings() and requestAnimationFrame(...)
saved(p, fn, setting, st) ==
  requestAnimationFrame([p EXCEPT !.state = st,
                                  !.localStorage = saveSettings(p.localStorage, st),
                                  !.calls = Append(@, [fn |-> fn, setting |-> setting, state |-> st])],
                        Apply(fn, setting))

\* toggleSetting(setting), with what it requests
toggleSettingOf(p, setting) ==
  IF setting \notin DOMAIN settingsConfig \/ setting \notin DOMAIN p.state THEN p
  ELSE saved(p, "toggleSetting", setting, toggleSetting(p.state, setting))

\* setSetting(key, value), with what it requests
setSettingOf(p, key, value) ==
  IF key = "" \/ key \notin DOMAIN p.state \/ key \notin DOMAIN settingsConfig THEN p
  ELSE saved(p, "setSetting", key, setSetting(p.state, key, value))

\* resetAll(), with what it requests
resetAllOf(p) == saved(p, "resetAll", "", resetAll(p.state))

\* announceToScreenReader(message)
announceToScreenReader(p, message) == [p EXCEPT !.announcements = Append(@, message)]

\* the message of the inner callback of toggleSetting and setSetting, and
\* of resetAll
messageOf(p, callback) ==
  IF callback.of = "resetAll" THEN ResetAnnouncement
  ELSE announcementOf(callback.setting, p.state[callback.setting])

\* one callback of an animation frame runs
ran(p, callback, available) ==
  CASE callback.fn = "toggleSetting" -> toggleSettingOf(p, callback.setting)
    [] callback.fn = "applyAllSettings" ->
         requestAnimationFrame([p EXCEPT !.timeoutSet = TRUE],
                               [callback EXCEPT !.fn = "updateUI"])
    [] callback.fn = "updateUI" ->
         announceToScreenReader([p EXCEPT !.options = updateUI(p.state)], messageOf(p, callback))
    [] OTHER -> applied(p, available)

\* the callbacks of one animation frame run in the order of their requests;
\* what they request runs in a later frame
RECURSIVE frame(_, _, _)

frame(p, callbacks, available) ==
  IF callbacks = <<>> THEN p
  ELSE frame(ran(p, Head(callbacks), available), Tail(callbacks), available)

\* the timer of the debounced applyAllSettings fires: later()
later(p) == requestAnimationFrame([p EXCEPT !.timeoutSet = FALSE], [fn |-> "apply"])
\* ------------------------------------------------------------------------
\* The page: startup fetch, index build, questions
\* ------------------------------------------------------------------------

\* the number of questions of a session
MaxSends == 1

\* the number of calls of buildFromCourse in a session with rebuilds
MaxBuilds == 2

VARIABLES
  fetchState,   \* "idle" before init, then "none" (no window.__fetchCourse),
                \* "pending", "resolved" or "rejected"
  data,         \* what the fetch resolved with, Undef before
  courseIndex,
  courseToc,
  aiMessages,   \* the texts of the panel's transcript
  builds,       \* the number of calls of buildFromCourse
  buildThrew,   \* did the last call end with a TypeError
  res,          \* what answerFromCourse ended with last, NoResult before
  arg,          \* the arguments of a function called on its own, Idle in a page
  out,          \* what that call returned, Idle before it returns
  state,        \* the accessibility settings of the page
  localStorage, \* the item stored under each key, Null for none
  aiOpen,       \* is the panel of the AI Assistant open
  navOpen,      \* is the panel of Navitoir open
  aiBtn,        \* aria-expanded of the button of the AI Assistant, "undefined" before init
  aiModalRoot,  \* style.display of the modal of the AI Assistant, "undefined" before init
  navBtn,       \* aria-expanded of the button of Navitoir
  navModalRoot, \* style.display of the modal of Navitoir
  navMsgEl,     \* the texts of the transcript of Navitoir
  navChipsEl,   \* the requests of the chips that are rendered
  timers,       \* the number of pending setTimeout(toggleNavPanel, 500)
  panel,        \* the accessibility panel: "hidden" or "shown"
  toggleBtn,    \* aria-expanded of the accessibility toggle
  events,       \* the events that were dispatched, in their order
  frames,       \* the callbacks that requestAnimationFrame holds, in their order
  timeoutSet,   \* is the timer of the debounced applyAllSettings pending
  styles,       \* the filter of the app and the style elements, by setting
  textToSpeechHandler, \* is the handler of text to speech set
  listeners,    \* the number of mouseup listeners that text to speech added
  options,      \* what updateUI() made of the option buttons
  announcements, \* the messages that were announced, in their order
  calls,        \* the calls of toggleSetting, setSetting and resetAll that
                \* changed the state, with the state they left
  speech,       \* is speech synthesis available in the browser
  sections,     \* the sections of the lesson in #app, in their order
  observer,     \* STATE.observer: "null", "observing" or "disconnected"
  scheduled,    \* STATE.scheduled: a frame is requested for the placement
  placements,   \* the number of pending timers of ensureInfographicPlacement and startObserver
  reconnects,   \* the number of pending timers that reconnect the observer
  hash,         \* window.location.hash
  lastHash,     \* STATE.lastHash
  mutations     \* the number of changes that the player made to the lesson

\* the settings as they are applied to the page
rendering == <<frames, timeoutSet, styles, textToSpeechHandler, listeners, options,
               announcements, calls, speech>>

\* the lesson and the infographic that is injected into it
injected == <<sections, observer, scheduled, placements, reconnects, hash, lastHash, mutations>>

\* the widgets of the page: the two assistants and the accessibility panel
ui == <<aiOpen, navOpen, aiBtn, aiModalRoot, navBtn, navModalRoot, navMsgEl, navChipsEl,
        timers, panel, toggleBtn, events, rendering, injected>>

vars == <<fetchState, data, courseIndex, courseToc, aiMessages, builds, buildThrew, res, arg, out, state, localStorage, ui>>

\* no function is called on its own
Idle == [fn |-> "none"]

\* the accessibility settings, in the page and as stored
a11y == <<state, localStorage>>

\* what the page leaves alone
others == <<arg, out, state, localStorage>>

NoResult == [ok |-> FALSE, message |-> <<>>, threw |-> FALSE]

\* the default settings are applied and drawn, and nothing is pending
Rendered ==
  /\ frames = <<>>
  /\ timeoutSet = FALSE
  /\ styles = applyStyles(DefaultState)
  /\ textToSpeechHandler = FALSE
  /\ listeners = 0
  /\ options = updateUI(DefaultState)
  /\ announcements = <<>>
  /\ calls = <<>>
  /\ speech = TRUE

\* a page without a lesson, where injectKeyPrinciplesImage() has not run
Uninjected ==
  /\ sections = <<>>
  /\ observer = "null"
  /\ scheduled = FALSE
  /\ placements = 0
  /\ reconnects = 0
  /\ hash = ""
  /\ lastHash = ""
  /\ mutations = 0

\* the widgets before init() runs: nothing is created, the accessibility
\* panel of the page is hidden
WidgetsLoaded ==
  /\ aiOpen = FALSE
  /\ navOpen = FALSE
  /\ aiBtn = "undefined"
  /\ aiModalRoot = "undefined"
  /\ navBtn = "undefined"
  /\ navModalRoot = "undefined"
  /\ navMsgEl = <<>>
  /\ navChipsEl = <<>>
  /\ timers = 0
  /\ panel = "hidden"
  /\ toggleBtn = "false"
  /\ events = <<>>

\* the widgets and the settings of a page that was loaded
UiLoaded == WidgetsLoaded /\ Rendered /\ Uninjected

\* the page as the script leaves it before init() runs
Loaded ==
  /\ UiLoaded
  /\ fetchState = "idle"
  /\ data = Undef
  /\ courseIndex = <<>>
  /\ courseToc = <<>>
  /\ aiMessages = <<>>
  /\ builds = 0
  /\ buildThrew = FALSE
  /\ res = NoResult
  /\ state = DefaultState
  /\ localStorage = [key \in {STORAGE_KEY} |-> Null]

Init == Loaded /\ arg = Idle /\ out = Idle

\* init(): the panel is created and, when the page offers a fetch function,
\* the course is requested
init ==
  /\ fetchState = "idle"
  /\ \E hasFetch \in BOOLEAN : fetchState' = IF hasFetch THEN "pending" ELSE "none"
  /\ aiBtn' = "false"
  /\ aiModalRoot' = "none"
  /\ UNCHANGED <<data, courseIndex, courseToc, aiMessages, builds, buildThrew, res>>
  /\ UNCHANGED others
  /\ UNCHANGED <<aiOpen, navOpen, navBtn, navModalRoot, navMsgEl, navChipsEl, timers, panel, toggleBtn, events, rendering, injected>>

\* var course = (data && data.course) ? data.course : data
courseOf(d) == IF Truthy(d) /\ Truthy(Get(d, "course")) THEN Get(d, "course") ELSE d

\* the call buildFromCourse(course): the index and the table of contents
\* are left as the call leaves them, also when it ends with a TypeError
Build(course) ==
  \E b \in {buildFromCourse(course, courseIndex, courseToc)} :
     /\ courseIndex' = b.index
     /\ courseToc' = b.toc
     /\ buildThrew' = b.threw
     /\ builds' = builds + 1

\* fetch().then(function(data) { ... if (course) buildFromCourse(course); })
\*        .catch(function() {}): a TypeError of the build is swallowed
FetchResolve ==
  /\ fetchState = "pending"
  /\ fetchState' = "resolved"
  /\ \E d \in Datas :
        /\ data' = d
        /\ IF Truthy(courseOf(d)) THEN Build(courseOf(d))
           ELSE UNCHANGED <<courseIndex, courseToc, builds, buildThrew>>
  /\ UNCHANGED <<aiMessages, res>>
  /\ UNCHANGED others
  /\ UNCHANGED ui

\* A variant of FetchReject that builds the index of a course all the same.
FetchRejectThenBuild ==
  /\ fetchState = "pending"
  /\ fetchState' = "rejected"
  /\ Build(PlainCourse)
  /\ UNCHANGED <<data, aiMessages, res>>
  /\ UNCHANGED others
  /\ UNCHANGED ui

\* the fetch fails: .catch(function() {})
FetchReject ==
  /\ fetchState = "pending"
  /\ fetchState' = "rejected"
  /\ UNCHANGED <<data, courseIndex, courseToc, aiMessages, builds, buildThrew, res>>
  /\ UNCHANGED others
  /\ UNCHANGED ui

\* is there a ' • ' at position i that replace(/ • /g, ...) finds: matches
\* do not overlap, and the one further left wins
RECURSIVE BulletAt(_, _)
BulletAt(s, i) ==
  /\ LitAt(s, i, <<" ", Bullet, " ">>)
  /\ ~(i > 2 /\ BulletAt(s, i - 2))

\* (res.message || '').replace(/ • /g, '\n• ')
display(message) ==
  [i \in 1..Len(message) |-> IF BulletAt(message, i) THEN "\n" ELSE message[i]]

\* the transcript after send(): the question, and the answer unless
\* answerFromCourse threw
shown(q, r) == IF r.threw THEN <<q>> ELSE <<q, display(r.message)>>

\* send(): the trimmed input is asked, and the question and the answer
\* are appended to the transcript; an empty input is not sent
send ==
  /\ fetchState # "idle"
  /\ Len(aiMessages) < 2 * MaxSends
  /\ \E value \in Typed :
        IF Trim(value) = <<>> THEN UNCHANGED <<aiMessages, res>>
        ELSE \E r \in {answerFromCourse(Trim(value), courseIndex, courseToc)} :
                /\ aiMessages' = aiMessages \o shown(Trim(value), r)
                /\ res' = r
  /\ UNCHANGED <<fetchState, data, courseIndex, courseToc, builds, buildThrew>>
  /\ UNCHANGED others
  /\ UNCHANGED ui

Next == init \/ FetchResolve \/ FetchReject \/ send

Spec == Init /\ [][Next]_vars

\* buildFromCourse called again with the course of the first call
Rebuild ==
  /\ builds >= 1
  /\ builds < MaxBuilds
  /\ Build(courseOf(data))
  /\ UNCHANGED <<fetchState, data, aiMessages, res>>
  /\ UNCHANGED others
  /\ UNCHANGED ui

NextRebuild == Next \/ Rebuild

SpecRebuild == Init /\ [][NextRebuild]_vars

\* ------------------------------------------------------------------------
\* Functions called on their own
\* ------------------------------------------------------------------------

\* the sequences of 1 to n elements of S that hold no element twice
SeqsUpTo(S, n) ==
  UNION {{s \in [1..k -> S] : \A i \in 1..k : \A j \in 1..k : s[i] = s[j] => i = j} : k \in 1..n}

\* a course of one lesson with one block of one item
OneItemCourse(item) ==
  Obj([lessons |-> Arr(<<
    Obj([id |-> Str(<<"l","1">>), title |-> Str(<<"O","b","j","e","c","t","i","v","e","s">>), items |-> Arr(<<
      Obj([id |-> Str(<<"b","1">>), items |-> Arr(<<item>>)]) >>)]) >>)])

\* the number of sentences of an objectives paragraph
MaxClauses == 4

\* what an objectives paragraph is made of
ObjectiveClauses ==
  {<<"R","e","c","o","g","n","i","s","e"," ","i","n","c","l","u","s","i","v","e"," ","t","e","r","m","s",".">>, <<"A","p","p","l","y"," ","p","l","a","i","n"," ","l","a","n","g","u","a","g","e",".">>, <<"U","s","e"," ","s","h","o","r","t"," ","s","e","n","t","e","n","c","e","s",".">>,
   <<"R","e","c","o","g","n","i","s","e"," ","j","a","r","g","o","n",".">>, <<"W","r","i","t","e"," ","c","l","e","a","r","l","y"," ","b","e","c","a","u","s","e"," ","i","t"," ","m","a","t","t","e","r","s",".">>, <<"R","e","c","o","g","n","i","s","e",","," ","A","p","p","l","y",","," ","U","s","e">>}

ObjectivesOpening == <<"A","t"," ","t","h","e"," ","e","n","d"," ","o","f"," ","t","h","e"," ","c","o","u","r","s","e",","," ","y","o","u"," ","w","i","l","l",":"," ">>

\* the objectives paragraphs
ObjectiveTexts ==
  {ObjectivesOpening \o Join(cs, <<" ">>) : cs \in SeqsUpTo(ObjectiveClauses, MaxClauses)}

\* buildFromCourse(course) on a fresh page, then answerFromCourse(q)
askCourse(course, q) ==
  Let(buildFromCourse(course, <<>>, <<>>),
      LAMBDA b : answerFromCourse(q, b.index, b.toc))

\* the objectives are asked of a course that holds one paragraph
InitObjectives ==
  /\ Loaded
  /\ out = Idle
  /\ \E t \in ObjectiveTexts :
        arg = [fn |-> "answerFromCourse", q |-> <<"o","b","j","e","c","t","i","v","e","s">>, text |-> t]

askObjectives ==
  /\ arg.fn = "answerFromCourse"
  /\ out = Idle
  /\ out' = askCourse(OneItemCourse(Obj([paragraph |-> Str(arg.text)])), arg.q)
  /\ UNCHANGED <<fetchState, data, courseIndex, courseToc, aiMessages, builds, buildThrew, res, arg>>
  /\ UNCHANGED a11y
  /\ UNCHANGED ui

SpecObjectives == InitObjectives /\ [][askObjectives]_vars


\* the number of sentences of a paragraph about the voice of verbs
MaxVoiceSentences == 3

\* what a paragraph about the voice of verbs is made of
VoiceSentences ==
  {<<"A","c","t","i","v","e"," ","v","o","i","c","e"," ","n","a","m","e","s"," ","t","h","e"," ","a","c","t","o","r"," ","f","i","r","s","t",".">>, <<"P","a","s","s","i","v","e"," ","v","o","i","c","e"," ","h","i","d","e","s"," ","t","h","e"," ","a","c","t","o","r",".">>,
   <<"A","c","t","i","v","e"," ","v","o","i","c","e"," ","i","s"," ","c","l","e","a","r","e","r"," ","t","h","a","n"," ","p","a","s","s","i","v","e"," ","v","o","i","c","e",".">>, <<"S","h","o","r","t"," ","s","e","n","t","e","n","c","e","s"," ","h","e","l","p"," ","r","e","a","d","e","r","s",".">>,
   <<"U","s","e"," ","a","c","t","i","v","e"," ","v","o","i","c","e"," ","(","n","o","t"," ","p","a","s","s","i","v","e"," ","v","o","i","c","e",")"," ","w","h","e","n"," ","y","o","u"," ","c","a","n",".">>}

\* the paragraphs about the voice of verbs
VoiceTexts == {Join(ss, <<" ">>) : ss \in SeqsUpTo(VoiceSentences, MaxVoiceSentences)}

\* the questions about the voice of verbs
VoiceQueries ==
  {<<"w","h","a","t"," ","i","s"," ","p","a","s","s","i","v","e"," ","v","o","i","c","e">>, <<"w","h","a","t"," ","i","s"," ","a","c","t","i","v","e"," ","v","o","i","c","e">>, <<"a","c","t","i","v","e"," ","v","o","i","c","e"," ","o","r"," ","p","a","s","s","i","v","e"," ","v","o","i","c","e">>}

\* a question about the voice of verbs is asked of a course that holds one paragraph
InitVoice ==
  /\ Loaded
  /\ out = Idle
  /\ \E t \in VoiceTexts : \E q \in VoiceQueries :
        arg = [fn |-> "focus", q |-> q, text |-> t]

askVoiceOf ==
  /\ arg.fn = "focus"
  /\ out = Idle
  /\ out' = askCourse(OneItemCourse(Obj([paragraph |-> Str(arg.text)])), arg.q)
  /\ UNCHANGED <<fetchState, data, courseIndex, courseToc, aiMessages, builds, buildThrew, res, arg>>
  /\ UNCHANGED a11y
  /\ UNCHANGED ui

SpecVoice == InitVoice /\ [][askVoiceOf]_vars

\* the sequences of 0 to n elements of S
SeqsOf(S, n) == UNION {[1..k -> S] : k \in 0..n}

\* the number of tokens of a query
MaxTokens == 2

\* the tokens of the queries
QueryTokens == {<<"p","l","a","i","n">>, <<"o","b","j","e","c","t">>, <<"o","b","j","e","c","t","i","v","e","s">>, <<"a">>, <<"i","n">>}

\* the texts that are scored
ScoredTexts ==
  {<<>>, <<"P","l","a","i","n"," ","l","a","n","g","u","a","g","e">>, <<"O","b","j","e","c","t","i","v","e","s">>, <<"p","l","a","i","n"," ","o","b","j","e","c","t">>, <<"a","s"," ","i","n">>, <<"p","l","a","i","n","l","y">>,
   <<"T","h","e"," ","o","b","j","e","c","t","i","v","e","s"," ","e","x","p","l","a","i","n"," ","i","t">>}

\* scoreMatch is called with a sequence of tokens and a text
InitScore ==
  /\ Loaded
  /\ out = Idle
  /\ \E ts \in SeqsOf(QueryTokens, MaxTokens) : \E t \in ScoredTexts :
        arg = [fn |-> "scoreMatch", queryTokens |-> ts, text |-> t]

callScoreMatch ==
  /\ arg.fn = "scoreMatch"
  /\ out = Idle
  /\ out' = scoreMatch(arg.queryTokens, arg.text)
  /\ UNCHANGED <<fetchState, data, courseIndex, courseToc, aiMessages, builds, buildThrew, res, arg>>
  /\ UNCHANGED a11y
  /\ UNCHANGED ui

SpecScore == InitScore /\ [][callScoreMatch]_vars

\* the number of characters of a text that is split into tokens
MaxChars == 3

\* the characters of the texts that are split into tokens
TokenChars == {"a", "B", "7", "_", "-", "!", " "}

\* what tokenize is called with: null, undefined, the short texts, and the
\* example of the specification
TokenizeInputs ==
  {Null, Undef, Str(<<"P","l","a","i","n","-","L","a","n","g","u","a","g","e","!","!">>)} \cup {Str(s) : s \in SeqsOf(TokenChars, MaxChars)}

\* (t || '')
orEmptyString(t) == IF Truthy(t) THEN t.s ELSE <<>>

InitTokenize ==
  /\ Loaded
  /\ out = Idle
  /\ \E t \in TokenizeInputs : arg = [fn |-> "tokenize", t |-> t]

callTokenize ==
  /\ arg.fn = "tokenize"
  /\ out = Idle
  /\ out' = [tokens |-> tokenize(orEmptyString(arg.t))]
  /\ UNCHANGED <<fetchState, data, courseIndex, courseToc, aiMessages, builds, buildThrew, res, arg>>
  /\ UNCHANGED a11y
  /\ UNCHANGED ui

SpecTokenize == InitTokenize /\ [][callTokenize]_vars

\* the number of questions asked one after the other
MaxAsks == 3

\* the questions asked one after the other
Asks == {<<"s","h","o","r","t"," ","s","e","n","t","e","n","c","e","s">>, <<"j","a","r","g","o","n">>}

\* the calls of answerFromCourse so far: arg holds the queries, out holds for
\* each call the number of builds before it and the result it returned
InitRepeat ==
  /\ Loaded
  /\ arg = [fn |-> "answerFromCourse", qs |-> <<>>]
  /\ out = [calls |-> <<>>]

\* A variant of ask in which the call takes the first entry out of the index.
askConsuming ==
  /\ fetchState # "idle"
  /\ Len(arg.qs) < MaxAsks
  /\ \E q \in Asks :
        /\ arg' = [arg EXCEPT !.qs = Append(@, q)]
        /\ out' = [calls |-> Append(out.calls,
                      [builds |-> builds, res |-> answerFromCourse(q, courseIndex, courseToc)])]
  /\ courseIndex' = IF courseIndex = <<>> THEN courseIndex ELSE Tail(courseIndex)
  /\ UNCHANGED <<fetchState, data, courseToc, aiMessages, builds, buildThrew, res>>
  /\ UNCHANGED a11y
  /\ UNCHANGED ui

\* answerFromCourse(q), called once the panel is there: it reads courseIndex
\* and courseToc and assigns to neither
ask ==
  /\ fetchState # "idle"
  /\ Len(arg.qs) < MaxAsks
  /\ \E q \in Asks :
        /\ arg' = [arg EXCEPT !.qs = Append(@, q)]
        /\ out' = [calls |-> Append(out.calls,
                      [builds |-> builds, res |-> answerFromCourse(q, courseIndex, courseToc)])]
  /\ UNCHANGED <<fetchState, data, courseIndex, courseToc, aiMessages, builds, buildThrew, res>>
  /\ UNCHANGED a11y
  /\ UNCHANGED ui

NextRepeat == init \/ FetchResolve \/ FetchReject \/ ask

SpecRepeat == InitRepeat /\ [][NextRepeat]_vars

\* what a paragraph with asides in parentheses is made of
AsideHeads == {<<"P","l","a","i","n"," ","l","a","n","g","u","a","g","e">>, <<"C","l","e","a","r"," ","a","n","d"," ","p","l","a","i","n"," ","l","a","n","g","u","a","g","e">>}

AsideMiddles ==
  {<<>>, <<" ","(","a","l","s","o"," ","c","a","l","l","e","d"," ","e","a","s","y"," ","E","n","g","l","i","s","h",")">>, <<" ","(","a","l","s","o"," ","c","a","l","l","e","d"," ","e","a","s","y"," ","E","n","g","l","i","s","h"," ","(","U","K",")",")">>, <<" ","(","4","7"," ","w","o","r","d","s",")">>}

AsideTails ==
  {<<" ","i","s"," ","c","l","e","a","r"," ","w","r","i","t","i","n","g",".">>, <<" ","i","s"," ","c","l","e","a","r"," ","w","r","i","t","i","n","g"," ","(","s","e","e"," ","t","h","e"," ","g","u","i","d","e">>,
   <<" ","i","s"," ","c","l","e","a","r"," ","(","s","h","o","r","t"," ","w","o","r","d","s","."," ","S","h","o","r","t"," ","s","e","n","t","e","n","c","e","s",")"," ","w","r","i","t","i","n","g"," ","f","o","r"," ","a","l","l",".">>}

\* the paragraphs with asides
AsideTexts == {h \o m \o t : h \in AsideHeads, m \in AsideMiddles, t \in AsideTails}

\* the questions asked of them
AsideQueries ==
  {<<"w","h","a","t"," ","i","s"," ","p","l","a","i","n"," ","l","a","n","g","u","a","g","e">>, <<"p","l","a","i","n"," ","l","a","n","g","u","a","g","e">>, <<"c","l","e","a","r"," ","w","r","i","t","i","n","g">>, <<"d","e","f","i","n","e"," ","p","l","a","i","n"," ","l","a","n","g","u","a","g","e">>}

\* a question is asked of a course that holds one paragraph with asides
InitAsides ==
  /\ Loaded
  /\ out = Idle
  /\ \E t \in AsideTexts : \E q \in AsideQueries :
        arg = [fn |-> "asides", q |-> q, text |-> t]

askAsides ==
  /\ arg.fn = "asides"
  /\ out = Idle
  /\ out' = askCourse(OneItemCourse(Obj([paragraph |-> Str(arg.text)])), arg.q)
  /\ UNCHANGED <<fetchState, data, courseIndex, courseToc, aiMessages, builds, buildThrew, res, arg>>
  /\ UNCHANGED a11y
  /\ UNCHANGED ui

SpecAsides == InitAsides /\ [][askAsides]_vars

\* ------------------------------------------------------------------------
\* The accessibility settings of a page, over reloads
\* ------------------------------------------------------------------------

\* the settings that are toggled and set, and a name that is no setting
SettingNames == {"contrast", "largeText", "textSpacing", "hideImages", "textToSpeech", "zoom"}

\* the values that A11yPortfolio.set is called with
SettingValues ==
  {Num(0), Num(1), Num(2), Num(7), Num(0 - 3), Half(0), Half(1), NaN,
   Bool(TRUE), Bool(FALSE), Str(<<"2">>), Undef}

\* the page of the course is loaded and its script has run init()
InitSettings ==
  /\ Loaded
  /\ arg = Idle
  /\ out = Idle

\* the page is loaded again: state starts from its defaults and init() calls
\* loadSettings()
Reload ==
  /\ state' = loadSettings(DefaultState, storageGet(localStorage, STORAGE_KEY))
  /\ UNCHANGED localStorage
  /\ UNCHANGED <<fetchState, data, courseIndex, courseToc, aiMessages, builds, buildThrew, res, arg, out>>
  /\ UNCHANGED ui

\* toggleSetting(setting), from a click on an option or A11yPortfolio.toggle;
\* nothing is saved for a name that is no setting
Toggle ==
  /\ \E setting \in SettingNames : \E st \in {toggleSetting(state, setting)} :
        /\ state' = st
        /\ localStorage' = IF setting \in DOMAIN settingsConfig
                           THEN saveSettings(localStorage, st) ELSE localStorage
  /\ UNCHANGED <<fetchState, data, courseIndex, courseToc, aiMessages, builds, buildThrew, res, arg, out>>
  /\ UNCHANGED ui

\* A11yPortfolio.set(key, value): setSetting(key, value)
Set ==
  /\ \E key \in SettingNames : \E value \in SettingValues : \E st \in {setSetting(state, key, value)} :
        /\ state' = st
        /\ localStorage' = IF key \in DOMAIN settingsConfig
                           THEN saveSettings(localStorage, st) ELSE localStorage
  /\ UNCHANGED <<fetchState, data, courseIndex, courseToc, aiMessages, builds, buildThrew, res, arg, out>>
  /\ UNCHANGED ui

\* resetAll(), from the reset button or A11yPortfolio.reset
Reset ==
  /\ \E st \in {resetAll(state)} :
        /\ state' = st
        /\ localStorage' = saveSettings(localStorage, st)
  /\ UNCHANGED <<fetchState, data, courseIndex, courseToc, aiMessages, builds, buildThrew, res, arg, out>>
  /\ UNCHANGED ui

NextSettings == Reload \/ Toggle \/ Set \/ Reset

SpecSettings == InitSettings /\ [][NextSettings]_vars

\* the numbers and other values that a stored item may hold for a setting
StoredValues == {Num(0), Num(1), Num(2), Num(7), Num(0 - 1), Half(1), Str(<<"2">>), Null}

\* the items that the page may find under 'accessibilitySettings'
StoredItems ==
  {JSONstringify([DefaultState EXCEPT !.contrast = c, !.hideImages = h]) :
     c \in StoredValues, h \in StoredValues}

\* the page is loaded with an item in the storage, and init() has called
\* loadSettings()
InitStored ==
  /\ fetchState = "idle"
  /\ data = Undef
  /\ courseIndex = <<>>
  /\ courseToc = <<>>
  /\ aiMessages = <<>>
  /\ builds = 0
  /\ buildThrew = FALSE
  /\ res = NoResult
  /\ UiLoaded
  /\ arg = Idle
  /\ out = Idle
  /\ \E item \in StoredItems :
        /\ localStorage = [key \in {STORAGE_KEY} |-> item]
        /\ state = loadSettings(DefaultState, JSONparse(item))

SpecStored == InitStored /\ [][NextSettings]_vars

\* the number of calls of toggleSetting with one key
MaxToggles == 3

\* the keys that toggleSetting is called with
ToggleKeys == {"contrast", "largeText", "hideImages", "zoom"}

\* the states that are toggled: the levels of three of the settings
ToggleStates ==
  {[DefaultState EXCEPT !.contrast = Num(c), !.largeText = Num(l), !.hideImages = Num(h)] :
     c \in 0..2, l \in 0..2, h \in 0..1}

\* toggleSetting is called with one key, some times; arg holds the key, the
\* state and the storage before the first call, and out counts the calls
InitToggle ==
  /\ fetchState = "idle"
  /\ data = Undef
  /\ courseIndex = <<>>
  /\ courseToc = <<>>
  /\ aiMessages = <<>>
  /\ builds = 0
  /\ buildThrew = FALSE
  /\ res = NoResult
  /\ UiLoaded
  /\ out = [calls |-> 0]
  /\ localStorage = [key \in {STORAGE_KEY} |-> Null]
  /\ \E st \in ToggleStates : \E setting \in ToggleKeys :
        /\ state = st
        /\ arg = [fn |-> "toggleSetting", setting |-> setting, state |-> st]

callToggleSetting ==
  /\ arg.fn = "toggleSetting"
  /\ out.calls < MaxToggles
  /\ out' = [calls |-> out.calls + 1]
  /\ \E st \in {toggleSetting(state, arg.setting)} :
        /\ state' = st
        /\ localStorage' = IF arg.setting \in DOMAIN settingsConfig
                           THEN saveSettings(localStorage, st) ELSE localStorage
  /\ UNCHANGED <<fetchState, data, courseIndex, courseToc, aiMessages, builds, buildThrew, res, arg>>
  /\ UNCHANGED ui

SpecToggle == InitToggle /\ [][callToggleSetting]_vars

\* ------------------------------------------------------------------------
\* handleNavitoirSubmit, called on its own
\* ------------------------------------------------------------------------

\* the levels of the settings before a request
NavStates ==
  {[DefaultState EXCEPT !.contrast = Num(c), !.textSpacing = Num(s), !.hideImages = Num(h)] :
     c \in 0..2, s \in 0..2, h \in 0..1}

\* the requests that name a setting with 'off', 'turn off' or 'disable' and
\* no level
OffRequests ==
  { [raw |-> <<"t","u","r","n"," ","o","f","f"," ","c","o","n","t","r","a","s","t">>, key |-> "contrast"],
    [raw |-> <<"c","o","n","t","r","a","s","t"," ","o","f","f">>, key |-> "contrast"],
    [raw |-> <<"D","i","s","a","b","l","e"," ","C","o","n","t","r","a","s","t"," ">>, key |-> "contrast"],
    [raw |-> <<"t","u","r","n"," ","o","f","f"," ","t","e","x","t"," ","s","p","a","c","i","n","g">>, key |-> "textSpacing"],
    [raw |-> <<"d","i","s","a","b","l","e"," ","h","i","d","e"," ","i","m","a","g","e","s">>, key |-> "hideImages"],
    [raw |-> <<"h","i","d","e"," ","i","m","a","g","e","s"," ","o","f","f">>, key |-> "hideImages"] }

\* the requests that handleNavitoirSubmit is called with
NavRequests ==
  {r.raw : r \in OffRequests} \cup
  { <<>>, <<" "," ">>, <<"c","o","n","t","r","a","s","t">>, <<"i","n","c","r","e","a","s","e"," ","c","o","n","t","r","a","s","t">>, <<"c","o","n","t","r","a","s","t"," ","l","e","v","e","l"," ","2">>, <<"s","e","t"," ","c","o","n","t","r","a","s","t"," ","t","o"," ","0">>,
    <<"h","i","d","e"," ","i","m","a","g","e","s"," ","l","v","l"," ","7">>, <<"l","e","s","s"," ","s","p","a","c","i","n","g">>, <<"o","p","e","n"," ","a","c","c","e","s","s","i","b","i","l","i","t","y">>, <<"g","o"," ","t","o"," ","i","n","t","r","o","d","u","c","t","i","o","n">>,
    <<"s","h","o","w"," ","m","e"," ","w","h","a","t"," ","i","s"," ","p","l","a","i","n"," ","l","a","n","g","u","a","g","e","?">>, <<"h","e","l","l","o">> }

\* the page after the fetch has resolved with the course and
\* buildFromCourse(course) has run
Fetched(course) ==
  /\ fetchState = "resolved"
  /\ data = course
  /\ courseIndex = buildFromCourse(course, <<>>, <<>>).index
  /\ courseToc = buildFromCourse(course, <<>>, <<>>).toc
  /\ builds = 1
  /\ buildThrew = FALSE
  /\ aiMessages = <<>>
  /\ res = NoResult

\* handleNavitoirSubmit is called once; arg holds the request and the
\* settings before the call
InitNavitoir ==
  /\ Fetched(PlainCourse)
  /\ UiLoaded
  /\ out = Idle
  /\ localStorage = [key \in {STORAGE_KEY} |-> Null]
  /\ \E st \in NavStates : \E raw \in NavRequests :
        /\ state = st
        /\ arg = [fn |-> "handleNavitoirSubmit", raw |-> raw, state |-> st]

\* the call: a11y.set(key, v) is setSetting, which saves the settings
callHandleNavitoirSubmit ==
  /\ arg.fn = "handleNavitoirSubmit"
  /\ out = Idle
  /\ \E r \in {handleNavitoirSubmit(arg.raw, state, courseToc)} :
        /\ out' = [message |-> r.message, closePanel |-> r.closePanel,
                   openPanel |-> r.openPanel, navigate |-> r.navigate]
        /\ state' = r.state
        /\ localStorage' = IF r.state # state THEN saveSettings(localStorage, r.state)
                           ELSE localStorage
  /\ UNCHANGED <<fetchState, data, courseIndex, courseToc, aiMessages, builds, buildThrew, res, arg>>
  /\ UNCHANGED ui

SpecNavitoir == InitNavitoir /\ [][callHandleNavitoirSubmit]_vars

\* ------------------------------------------------------------------------
\* The panel of the AI Assistant and the events of its page
\* ------------------------------------------------------------------------

\* the number of events that a user sends to the page
MaxEvents == 3

\* the event is recorded, with the request it carries
dispatchWith(type, target, value) ==
  /\ Len(events) < MaxEvents
  /\ events' = Append(events, [type |-> type, target |-> target, value |-> value])

\* the event is recorded
dispatch(type, target) == dispatchWith(type, target, <<>>)

\* String(aiOpen)
String(b) == IF b THEN "true" ELSE "false"

\* aiOpen ? 'flex' : 'none'
flexIf(b) == IF b THEN "flex" ELSE "none"

\* toggleAIPanel()
toggleAIPanel ==
  /\ aiOpen' = ~aiOpen
  /\ aiModalRoot' = IF aiModalRoot # "undefined" THEN flexIf(~aiOpen) ELSE aiModalRoot
  /\ aiBtn' = IF aiBtn # "undefined" THEN String(~aiOpen) ELSE aiBtn

\* what the events of the AI Assistant leave alone
besideAIPanel ==
  <<fetchState, data, courseIndex, courseToc, aiMessages, builds, buildThrew, res, arg, out,
    state, localStorage, navOpen, navBtn, navModalRoot, navMsgEl, navChipsEl, timers, panel,
    toggleBtn, rendering, injected>>

\* a click on the button of the AI Assistant: the listener stops the
\* propagation and toggles the panel
clickAIButton ==
  /\ aiBtn # "undefined"
  /\ dispatch("click", "aiBtn")
  /\ toggleAIPanel
  /\ UNCHANGED besideAIPanel

\* a click on the X of the panel, which is displayed
clickClose ==
  /\ aiModalRoot = "flex"
  /\ dispatch("click", "closeBtn")
  /\ toggleAIPanel
  /\ UNCHANGED besideAIPanel

\* a click on the backdrop of the modal, which is displayed
clickBackdrop ==
  /\ aiModalRoot = "flex"
  /\ dispatch("click", "backdrop")
  /\ toggleAIPanel
  /\ UNCHANGED besideAIPanel

\* a click inside the panel, on none of its buttons: it reaches
\* closePanelsOnClickOutside, which returns at once
clickPanel ==
  /\ aiModalRoot = "flex"
  /\ dispatch("click", "aiPanel")
  /\ UNCHANGED <<aiOpen, aiBtn, aiModalRoot>>
  /\ UNCHANGED besideAIPanel

\* a click elsewhere in the document: closePanelsOnClickOutside(e)
clickElsewhere ==
  /\ aiBtn # "undefined"
  /\ dispatch("click", "body")
  /\ IF aiOpen THEN toggleAIPanel ELSE UNCHANGED <<aiOpen, aiBtn, aiModalRoot>>
  /\ UNCHANGED besideAIPanel

\* A variant of keydownEscape that toggles the panel whatever aiOpen is.
keydownEscapeAlways ==
  /\ aiBtn # "undefined"
  /\ dispatch("keydown", "Escape")
  /\ toggleAIPanel
  /\ UNCHANGED besideAIPanel

\* the Escape key: if (e.key === 'Escape' && aiOpen) toggleAIPanel()
keydownEscape ==
  /\ aiBtn # "undefined"
  /\ dispatch("keydown", "Escape")
  /\ IF aiOpen THEN toggleAIPanel ELSE UNCHANGED <<aiOpen, aiBtn, aiModalRoot>>
  /\ UNCHANGED besideAIPanel

NextAssistant ==
  \/ init
  \/ clickAIButton
  \/ clickClose
  \/ clickBackdrop
  \/ clickPanel
  \/ clickElsewhere
  \/ keydownEscape

SpecAssistant == Init /\ [][NextAssistant]_vars

\* ------------------------------------------------------------------------
\* The AI Assistant & Navitoir widget, with the accessibility panel
\* ------------------------------------------------------------------------

\* the sign that begins the greeting
Wave == "WAVE"

\* what the handlers of the widget read and write
Widget ==
  [aiOpen |-> aiOpen, navOpen |-> navOpen, aiBtn |-> aiBtn, aiModalRoot |-> aiModalRoot,
   navBtn |-> navBtn, navModalRoot |-> navModalRoot, navMsgEl |-> navMsgEl,
   navChipsEl |-> navChipsEl, timers |-> timers, panel |-> panel, toggleBtn |-> toggleBtn,
   state |-> state, localStorage |-> localStorage]

\* the handlers leave the widget as w
becomes(w) ==
  /\ aiOpen' = w.aiOpen
  /\ navOpen' = w.navOpen
  /\ aiBtn' = w.aiBtn
  /\ aiModalRoot' = w.aiModalRoot
  /\ navBtn' = w.navBtn
  /\ navModalRoot' = w.navModalRoot
  /\ navMsgEl' = w.navMsgEl
  /\ navChipsEl' = w.navChipsEl
  /\ timers' = w.timers
  /\ panel' = w.panel
  /\ toggleBtn' = w.toggleBtn
  /\ state' = w.state
  /\ localStorage' = w.localStorage

\* what the events of the widget leave alone
besideWidget ==
  <<fetchState, data, courseIndex, courseToc, aiMessages, builds, buildThrew, res, arg, out, rendering, injected>>

\* the chips of the first two lessons: 'go to ' + (les.lessonTitle || '')
lessonChips(toc) == [i \in 1..(IF Len(toc) < 2 THEN Len(toc) ELSE 2) |-> <<"g","o"," ","t","o"," ">> \o toc[i].lessonTitle]

\* the chips of the first two blocks of the first lesson: 'show me ' + (bls[j].title || '')
blockChips(toc) ==
  IF toc = <<>> THEN <<>>
  ELSE [j \in 1..(IF Len(toc[1].blocks) < 2 THEN Len(toc[1].blocks) ELSE 2) |->
          <<"s","h","o","w"," ","m","e"," ">> \o toc[1].blocks[j].title]

\* renderNavitoirChips(): the requests of the chips
renderNavitoirChips(toc) ==
  lessonChips(toc) \o blockChips(toc)
    \o <<<<"o","p","e","n"," ","a","c","c","e","s","s","i","b","i","l","i","t","y">>, <<"i","n","c","r","e","a","s","e"," ","t","e","x","t"," ","s","i","z","e">>, <<"i","n","c","r","e","a","s","e"," ","c","o","n","t","r","a","s","t">>>>

\* addNavitoirGreeting()
Greeting ==
  <<Wave>> \o <<" ","H","i","!"," ","I","'","m"," ","N","a","v","i","t","o","i","r",","," ","y","o","u","r"," ","n","a","v","i","g","a","t","i","o","n"," ","a","s","s","i","s","t","a","n","t","."," ","S","a","y"," ","'","g","o"," ","t","o","'"," ","o","r"," ","'","s","h","o","w"," ","m","e","'"," ","t","o"," ","j","u","m","p"," ","t","o"," ","a"," ","l","e","s","s","o","n","."," ","S","a","y"," ","'","o","p","e","n"," ","a","c","c","e","s","s","i","b","i","l","i","t","y","'"," ","f","o","r"," ","o","p","t","i","o","n","s","."," ","T","r","y"," ","t","h","e"," ","c","h","i","p","s"," ","o","r"," ","t","y","p","e"," ","b","e","l","o","w",".">>

\* the part of toggleNavPanel() that runs when the panel opens
opened(w, toc) ==
  [w EXCEPT !.navChipsEl = renderNavitoirChips(toc),
            !.navMsgEl = IF w.navMsgEl = <<>> THEN <<Greeting>> ELSE w.navMsgEl]

\* toggleNavPanel()
toggleNavPanel(w, toc) ==
  IF w.navOpen
  THEN [w EXCEPT !.navOpen = FALSE, !.navModalRoot = "none", !.navBtn = "false"]
  ELSE opened([w EXCEPT !.navOpen = TRUE, !.navModalRoot = "flex", !.navBtn = "true"], toc)

\* toggleAIPanel(), on the widget
toggledAI(w) ==
  [w EXCEPT !.aiOpen = ~w.aiOpen, !.aiModalRoot = flexIf(~w.aiOpen), !.aiBtn = String(~w.aiOpen)]

\* A11yPortfolio.openPanel()
openPanel(w) == [w EXCEPT !.panel = "shown", !.toggleBtn = "true"]

\* the panel is hidden: classList.add('hidden'), aria-expanded 'false'
hidden(w) == [w EXCEPT !.panel = "hidden", !.toggleBtn = "false"]

\* the click listener of the accessibility script on the document, for a
\* click whose target is outside #accessibility-container
clickOutside(w) == IF w.panel # "hidden" THEN hidden(w) ELSE w

\* closePanelsOnClickOutside(e), for a target outside both modals and both
\* buttons
closePanelsOnClickOutside(w, toc) ==
  IF w.aiOpen
  THEN IF w.navOpen THEN toggleNavPanel(toggledAI(w), toc) ELSE toggledAI(w)
  ELSE IF w.navOpen THEN toggleNavPanel(w, toc) ELSE w

\* the links of the host page that tryNavigate may find
Links == {"a", "none"}

\* tryNavigate(lessonId, blockId): when the page has a link to the lesson,
\* a.click() sends a click through the listeners of the document
tryNavigate(w, toc, link) ==
  IF link = "a" THEN clickOutside(closePanelsOnClickOutside(w, toc)) ELSE w

\* onNavitoirSend(val) after handleNavitoirSubmit(r) gave reply
sent(w, toc, r, reply, link) ==
  [(IF reply.navigate # NoTarget THEN tryNavigate(IF reply.openPanel THEN openPanel(w) ELSE w, toc, link)
    ELSE IF reply.openPanel THEN openPanel(w) ELSE w)
   EXCEPT !.state = reply.state,
          !.localStorage = IF reply.state # w.state THEN saveSettings(w.localStorage, reply.state)
                           ELSE w.localStorage,
          !.navMsgEl = w.navMsgEl \o <<r, reply.message>>,
          !.timers = IF reply.closePanel THEN w.timers + 1 ELSE w.timers]

\* onNavitoirSend(val)
onNavitoirSend(w, toc, val, link) ==
  IF Trim(val) = <<>> THEN w
  ELSE sent(w, toc, Trim(val), handleNavitoirSubmit(Trim(val), w.state, toc), link)

\* the requests that are typed into the form
TypedRequests == {<<"o","p","e","n"," ","a","1","1","y">>, <<"t","u","r","n"," ","o","f","f"," ","c","o","n","t","r","a","s","t">>, <<" ">>}

\* the widget after init() has run and the fetch has resolved with the course
InitWidget ==
  /\ Fetched(PlainCourse)
  /\ arg = Idle
  /\ out = Idle
  /\ state = DefaultState
  /\ localStorage = [key \in {STORAGE_KEY} |-> Null]
  /\ aiOpen = FALSE
  /\ navOpen = FALSE
  /\ aiBtn = "false"
  /\ aiModalRoot = "none"
  /\ navBtn = "false"
  /\ navModalRoot = "none"
  /\ navMsgEl = <<>>
  /\ navChipsEl = <<>>
  /\ timers = 0
  /\ panel = "hidden"
  /\ toggleBtn = "false"
  /\ events = <<>>
  /\ Rendered
  /\ Uninjected

\* a click on the button of Navitoir: the listener stops the propagation
clickNavButton ==
  /\ dispatch("click", "navBtn")
  /\ becomes(toggleNavPanel(Widget, courseToc))
  /\ UNCHANGED besideWidget

\* a click on the X of the panel of Navitoir, which is displayed
clickNavClose ==
  /\ navModalRoot = "flex"
  /\ dispatch("click", "navCloseBtn")
  /\ becomes(toggleNavPanel(Widget, courseToc))
  /\ UNCHANGED besideWidget

\* a click on the backdrop of the modal of Navitoir, which is displayed
clickNavBackdrop ==
  /\ navModalRoot = "flex"
  /\ dispatch("click", "navBackdrop")
  /\ becomes(toggleNavPanel(Widget, courseToc))
  /\ UNCHANGED besideWidget

\* a click on a chip: its listener calls onNavitoirSend(c.v), then the click
\* reaches the listeners of the document: closePanelsOnClickOutside returns
\* at once, the target being inside the modal of Navitoir, and the listener
\* of the accessibility script finds the target outside its container
clickChip ==
  /\ navModalRoot = "flex"
  /\ \E i \in 1..Len(navChipsEl) : \E link \in Links :
        /\ dispatchWith("click", "chip", navChipsEl[i])
        /\ becomes(clickOutside(onNavitoirSend(Widget, courseToc, navChipsEl[i], link)))
  /\ UNCHANGED besideWidget

\* the form is submitted with a click on its button: the click reaches the
\* listeners of the document first, then the submit event calls
\* onNavitoirSend(navInputEl.value)
submit ==
  /\ navModalRoot = "flex"
  /\ \E val \in TypedRequests : \E link \in Links :
        /\ dispatchWith("submit", "form", val)
        /\ becomes(onNavitoirSend(clickOutside(Widget), courseToc, val, link))
  /\ UNCHANGED besideWidget

\* the Escape key: the listener of the widget closes the AI Assistant, or
\* else Navitoir; the listener of the accessibility script hides its panel
keydownEscapeWidget ==
  /\ dispatch("keydown", "Escape")
  /\ becomes(clickOutside(IF aiOpen THEN toggledAI(Widget)
                          ELSE IF navOpen THEN toggleNavPanel(Widget, courseToc)
                          ELSE Widget))
  /\ UNCHANGED besideWidget

\* a click elsewhere in the document
clickElsewhereWidget ==
  /\ dispatch("click", "body")
  /\ becomes(clickOutside(closePanelsOnClickOutside(Widget, courseToc)))
  /\ UNCHANGED besideWidget

\* a click on the accessibility toggle: the listener stops the propagation
clickToggleBtn ==
  /\ dispatch("click", "toggleBtn")
  /\ becomes(IF panel = "hidden" THEN openPanel(Widget) ELSE hidden(Widget))
  /\ UNCHANGED besideWidget

\* a click inside the accessibility panel, which is shown: it reaches
\* closePanelsOnClickOutside
clickAccessibilityPanel ==
  /\ panel = "shown"
  /\ dispatch("click", "panel")
  /\ becomes(closePanelsOnClickOutside(Widget, courseToc))
  /\ UNCHANGED besideWidget

\* a timer of setTimeout(toggleNavPanel, 500) fires
timeout ==
  /\ timers > 0
  /\ becomes(toggleNavPanel([Widget EXCEPT !.timers = timers - 1], courseToc))
  /\ UNCHANGED events
  /\ UNCHANGED besideWidget

NextWidget ==
  \/ clickAIButton
  \/ clickClose
  \/ clickBackdrop
  \/ clickNavButton
  \/ clickNavClose
  \/ clickNavBackdrop
  \/ clickChip
  \/ submit
  \/ keydownEscapeWidget
  \/ clickElsewhereWidget
  \/ clickToggleBtn
  \/ clickAccessibilityPanel
  \/ timeout

SpecWidget == InitWidget /\ [][NextWidget]_vars

\* ------------------------------------------------------------------------
\* Bursts of toggleSetting, setSetting and resetAll, with the animation
\* frames and the timer of the debounced applyAllSettings
\* ------------------------------------------------------------------------

\* the number of calls and clicks of a burst
MaxCalls == 3

\* the settings of a burst
BurstKeys == {"contrast", "largeText", "textToSpeech"}

\* the values that A11yPortfolio.set is called with in a burst
BurstValues == {Num(0), Num(1), Num(7), NaN}

\* what the accessibility script reads and writes when it applies settings
Page ==
  [state |-> state, localStorage |-> localStorage, frames |-> frames, timeoutSet |-> timeoutSet,
   styles |-> styles, textToSpeechHandler |-> textToSpeechHandler, listeners |-> listeners,
   options |-> options, announcements |-> announcements, calls |-> calls]

\* the script leaves the page as p
shows(p) ==
  /\ state' = p.state
  /\ localStorage' = p.localStorage
  /\ frames' = p.frames
  /\ timeoutSet' = p.timeoutSet
  /\ styles' = p.styles
  /\ textToSpeechHandler' = p.textToSpeechHandler
  /\ listeners' = p.listeners
  /\ options' = p.options
  /\ announcements' = p.announcements
  /\ calls' = p.calls

\* what applying the settings leaves alone
besidePage ==
  <<fetchState, data, courseIndex, courseToc, aiMessages, builds, buildThrew, res, arg, out,
    aiOpen, navOpen, aiBtn, aiModalRoot, navBtn, navModalRoot, navMsgEl, navChipsEl, timers,
    panel, toggleBtn, events, speech, injected>>

\* the calls and clicks of the burst so far: the calls that were made and
\* the clicks whose callback has not run yet
started == Len(calls) + Cardinality({i \in DOMAIN frames : frames[i].fn = "toggleSetting"})

\* a page with nothing stored, after init(): loadSettings(), and then
\* applyAllSettings() sets the timer and updateUI() draws the options; the
\* panel was opened; the browser has speech synthesis or lacks it
InitBurst ==
  /\ fetchState = "idle"
  /\ data = Undef
  /\ courseIndex = <<>>
  /\ courseToc = <<>>
  /\ aiMessages = <<>>
  /\ builds = 0
  /\ buildThrew = FALSE
  /\ res = NoResult
  /\ arg = Idle
  /\ out = Idle
  /\ aiOpen = FALSE
  /\ navOpen = FALSE
  /\ aiBtn = "undefined"
  /\ aiModalRoot = "undefined"
  /\ navBtn = "undefined"
  /\ navModalRoot = "undefined"
  /\ navMsgEl = <<>>
  /\ navChipsEl = <<>>
  /\ timers = 0
  /\ panel = "shown"
  /\ toggleBtn = "true"
  /\ events = <<>>
  /\ state = DefaultState
  /\ localStorage = [key \in {STORAGE_KEY} |-> Null]
  /\ frames = <<>>
  /\ timeoutSet = TRUE
  /\ styles = applyStyles(DefaultState)
  /\ textToSpeechHandler = FALSE
  /\ listeners = 0
  /\ options = updateUI(DefaultState)
  /\ announcements = <<>>
  /\ calls = <<>>
  /\ speech \in BOOLEAN
  /\ Uninjected

\* a click on an option of the panel, or Enter or Space on it: the listener
\* requests a frame for toggleSetting(setting)
clickOption ==
  /\ started < MaxCalls
  /\ \E setting \in BurstKeys :
        shows(requestAnimationFrame(Page, [fn |-> "toggleSetting", setting |-> setting]))
  /\ UNCHANGED besidePage

\* A11yPortfolio.toggle(key)
callToggle ==
  /\ started < MaxCalls
  /\ \E key \in BurstKeys : shows(toggleSettingOf(Page, key))
  /\ UNCHANGED besidePage

\* A11yPortfolio.set(key, value)
callSet ==
  /\ started < MaxCalls
  /\ \E key \in BurstKeys : \E value \in BurstValues : shows(setSettingOf(Page, key, value))
  /\ UNCHANGED besidePage

\* a click on the reset button, or A11yPortfolio.reset()
callReset ==
  /\ started < MaxCalls
  /\ shows(resetAllOf(Page))
  /\ UNCHANGED besidePage

\* an animation frame: the callbacks that were requested run
animationFrame ==
  /\ frames # <<>>
  /\ shows(frame([Page EXCEPT !.frames = <<>>], frames, speech))
  /\ UNCHANGED besidePage

\* the timer of the debounced applyAllSettings fires after DEBOUNCE_DELAY
debounced ==
  /\ timeoutSet
  /\ shows(later(Page))
  /\ UNCHANGED besidePage

NextBurst ==
  \/ clickOption
  \/ callToggle
  \/ callSet
  \/ callReset
  \/ animationFrame
  \/ debounced

SpecBurst == InitBurst /\ [][NextBurst]_vars

\* ------------------------------------------------------------------------
\* The infographic of Key Principles: injectKeyPrinciplesImage()
\* ------------------------------------------------------------------------

\* the number of changes that the player makes to the lesson
MaxMutations == 4

\* the infographic section, and the sections of the player: the one that
\* findKeyPrinciplesSection finds, the one that
\* findUsingShortSentencesSection finds, and one that neither finds; the
\* sections of a lesson are the children of one container
Infographic == "infographic"

KeySection == "key"

UsingSection == "using"

PlayerSections == {KeySection, "other", UsingSection}

\* null, for a section
None == "null"

\* the routes of the player
Hashes == {"", "#/lessons/1"}

has(s, node) == \E i \in DOMAIN s : s[i] = node

\* the place of a node among the children, 0 when it is none of them
indexOf(s, node) == IF has(s, node) THEN Min({i \in DOMAIN s : s[i] = node}) ELSE 0

\* node.nextSibling
nextSibling(s, node) ==
  IF indexOf(s, node) = 0 \/ indexOf(s, node) = Len(s) THEN None ELSE s[indexOf(s, node) + 1]

\* node.remove()
removed(s, node) ==
  IF has(s, node) THEN SubSeq(s, 1, indexOf(s, node) - 1) \o SubSeq(s, indexOf(s, node) + 1, Len(s))
  ELSE s

\* the children with node put at place i
putAt(s, node, i) == SubSeq(s, 1, i - 1) \o <<node>> \o SubSeq(s, i, Len(s))

\* parent.insertBefore(node, child): node is taken from where it is; with
\* child = node nothing moves
insertBefore(s, node, child) ==
  IF child = node THEN s ELSE putAt(removed(s, node), node, indexOf(removed(s, node), child))

\* parent.appendChild(node)
appendChild(s, node) == Append(removed(s, node), node)

\* findKeyPrinciplesSection(appContainer)
findKeyPrinciplesSection(s) == IF has(s, KeySection) THEN KeySection ELSE None

\* findUsingShortSentencesSection(parentContainer)
findUsingShortSentencesSection(s) == IF has(s, UsingSection) THEN UsingSection ELSE None

\* usingSection || keySection.nextSibling
desiredSibling(s) ==
  IF findUsingShortSentencesSection(s) # None THEN findUsingShortSentencesSection(s)
  ELSE nextSibling(s, KeySection)

\* isInCorrectParent && isInCorrectPosition; an infographic that was just
\* created has no parent and no sibling
inPlace(s) ==
  /\ has(s, Infographic)
  /\ IF desiredSibling(s) # None THEN nextSibling(s, Infographic) = desiredSibling(s)
     ELSE nextSibling(s, KeySection) = Infographic \/ nextSibling(s, KeySection) = None

\* "Place the section"
placed(s) ==
  IF desiredSibling(s) # None THEN insertBefore(s, Infographic, desiredSibling(s))
  ELSE IF nextSibling(s, KeySection) # None /\ nextSibling(s, KeySection) # Infographic
  THEN insertBefore(s, Infographic, nextSibling(s, KeySection))
  ELSE IF ~has(s, Infographic) THEN appendChild(s, Infographic)
  ELSE s

\* what injectKeyPrinciplesImage() reads and writes
Lesson ==
  [sections |-> sections, observer |-> observer, scheduled |-> scheduled,
   placements |-> placements, reconnects |-> reconnects, lastHash |-> lastHash]

\* the script leaves the lesson as l
leaves(l) ==
  /\ sections' = l.sections
  /\ observer' = l.observer
  /\ scheduled' = l.scheduled
  /\ placements' = l.placements
  /\ reconnects' = l.reconnects
  /\ lastHash' = l.lastHash

\* what the injection leaves alone
besideLesson ==
  <<fetchState, data, courseIndex, courseToc, aiMessages, builds, buildThrew, res, arg, out,
    state, localStorage, aiOpen, navOpen, aiBtn, aiModalRoot, navBtn, navModalRoot, navMsgEl,
    navChipsEl, timers, panel, toggleBtn, rendering>>

\* the observer is disconnected for the placement, and a timer of 100 ms
\* is set that connects it again
disconnected(l) ==
  IF l.observer # "null" THEN [l EXCEPT !.observer = "disconnected", !.reconnects = @ + 1]
  ELSE l

\* ensureInfographicPlacement(), on a page with #app, at currentHash
ensureInfographicPlacement(l, currentHash) ==
  IF findKeyPrinciplesSection(l.sections) = None
  THEN [l EXCEPT !.sections = removed(@, Infographic), !.lastHash = currentHash]
  ELSE IF ~inPlace(l.sections)
  THEN [disconnected(l) EXCEPT !.sections = placed(@), !.lastHash = currentHash]
  ELSE [l EXCEPT !.lastHash = currentHash]

\* startObserver()
startObserver(l) == IF l.observer # "null" THEN l ELSE [l EXCEPT !.observer = "observing"]

\* stopObserver()
stopObserver(l) == [l EXCEPT !.observer = "null"]

\* the callback of the observer for a change of the player, which adds or
\* removes sections that are not the infographic: schedulePlacement(); an
\* observer that is disconnected gets no record
observed(l) == IF l.observer = "observing" THEN [l EXCEPT !.scheduled = TRUE] ELSE l

\* the lessons that the page starts with
StartLessons == {<<>>, <<KeySection>>, <<KeySection, UsingSection>>, <<"other">>}

\* the page after injectKeyPrinciplesImage(): the timer of the first
\* placement is pending
InitInjected ==
  /\ fetchState = "idle"
  /\ data = Undef
  /\ courseIndex = <<>>
  /\ courseToc = <<>>
  /\ aiMessages = <<>>
  /\ builds = 0
  /\ buildThrew = FALSE
  /\ res = NoResult
  /\ arg = Idle
  /\ out = Idle
  /\ state = DefaultState
  /\ localStorage = [key \in {STORAGE_KEY} |-> Null]
  /\ WidgetsLoaded
  /\ Rendered
  /\ sections \in StartLessons
  /\ observer = "null"
  /\ scheduled = FALSE
  /\ placements = 1
  /\ reconnects = 0
  /\ hash = ""
  /\ lastHash = ""
  /\ mutations = 0

\* the player adds a section at the end of the lesson; Key Principles
\* comes before Using Short Sentences in the course
playerAppends ==
  /\ mutations < MaxMutations
  /\ mutations' = mutations + 1
  /\ \E section \in PlayerSections :
        /\ ~has(sections, section)
        /\ section = KeySection => ~has(sections, UsingSection)
        /\ leaves(observed([Lesson EXCEPT !.sections = Append(@, section)]))
  /\ UNCHANGED <<hash, events>>
  /\ UNCHANGED besideLesson

\* the player removes its sections for a new lesson: each of them, which
\* leaves the infographic, or their container with all that is in it
playerClears ==
  /\ mutations < MaxMutations
  /\ mutations' = mutations + 1
  /\ \E section \in PlayerSections : has(sections, section)
  /\ \E kept \in {<<>>, <<Infographic>>} :
        /\ kept # <<>> => has(sections, Infographic)
        /\ leaves(observed([Lesson EXCEPT !.sections = kept]))
  /\ UNCHANGED <<hash, events>>
  /\ UNCHANGED besideLesson

\* the route changes: the listener of hashchange
hashchange ==
  /\ dispatch("hashchange", "window")
  /\ \E h \in Hashes \ {hash} : hash' = h
  /\ leaves([stopObserver(Lesson) EXCEPT !.sections = removed(@, Infographic),
                                         !.placements = @ + 1])
  /\ UNCHANGED mutations
  /\ UNCHANGED besideLesson

\* a timer of INFographic_DELAY or INFographic_HASH_DELAY fires
placementTimeout ==
  /\ placements > 0
  /\ leaves(startObserver(ensureInfographicPlacement([Lesson EXCEPT !.placements = @ - 1], hash)))
  /\ UNCHANGED <<hash, events, mutations>>
  /\ UNCHANGED besideLesson

\* the frame that schedulePlacement() requested
placementFrame ==
  /\ scheduled
  /\ leaves(ensureInfographicPlacement([Lesson EXCEPT !.scheduled = FALSE], hash))
  /\ UNCHANGED <<hash, events, mutations>>
  /\ UNCHANGED besideLesson

\* a timer of 100 ms fires: the observer, if there is one, observes #app
reconnect ==
  /\ reconnects > 0
  /\ leaves([Lesson EXCEPT !.reconnects = @ - 1,
                           !.observer = IF @ # "null" THEN "observing" ELSE @])
  /\ UNCHANGED <<hash, events, mutations>>
  /\ UNCHANGED besideLesson

NextInjected ==
  \/ playerAppends
  \/ playerClears
  \/ hashchange
  \/ placementTimeout
  \/ placementFrame
  \/ reconnect

SpecInjected == InitInjected /\ [][NextInjected]_vars
\* ------------------------------------------------------------------------
\* Properties
\* ------------------------------------------------------------------------

StillLoadingResult == Result(FALSE, StillLoading)

\* a question was sent
Asked == Len(aiMessages) >= 2

\* the question sent last
lastQuery == aiMessages[Len(aiMessages) - 1]

\* A question was answered out of the index: the index is built at most
\* once and stays as it is afterwards, so res was computed from the
\* courseIndex and courseToc of the state.
Answered == Asked /\ courseIndex # <<>> /\ res # StillLoadingResult

\* the objectives branch answers q
objectivesHit(q, index) == isObjectives(q) /\ objectivesEntry(q, index) # <<>>

\* C1: while courseIndex is empty, answerFromCourse returns the still-loading
\* result for every query, the empty and the punctuation-only ones included,
\* and a question sent then is answered with it.
C1_EmptyIndexStillLoading ==
  courseIndex = <<>> =>
    /\ \A q \in Typed : answerFromCourse(q, courseIndex, courseToc) = StillLoadingResult
    /\ Asked => res = StillLoadingResult

\* a punctuation-only question was sent after a build that left the index
\* empty, and got the still-loading result
C1_Witness ==
  /\ builds = 1
  /\ courseToc # <<>>
  /\ courseIndex = <<>>
  /\ Asked
  /\ lastQuery = <<"!","!">>
  /\ res = StillLoadingResult

\* C2: the index is empty until the startup fetch resolves; buildFromCourse
\* is called once when the fetch resolves with a course and never otherwise;
\* while the fetch is pending, rejected or absent every question gets the
\* still-loading result.
C2_Lifecycle ==
  /\ builds <= 1
  /\ fetchState # "resolved" =>
       /\ courseIndex = <<>>
       /\ courseToc = <<>>
       /\ builds = 0
       /\ Asked => res = StillLoadingResult
  /\ fetchState = "resolved" => builds = (IF Truthy(courseOf(data)) THEN 1 ELSE 0)
  /\ courseIndex # <<>> => builds = 1

\* a question sent while the fetch was pending got the still-loading
\* result, and the fetch then resolved and the one build filled the index
C2_Witness ==
  /\ fetchState = "resolved"
  /\ builds = 1
  /\ courseIndex # <<>>
  /\ Asked
  /\ res = StillLoadingResult

\* C3: courseIndex and courseToc are either what they were before the build
\* (empty) or what a build that walked the whole tree left.
C3_NoPartialIndex ==
  \/ courseIndex = <<>> /\ courseToc = <<>>
  \/ builds >= 1 /\ ~buildThrew

\* C4: buildFromCourse ends normally on every tree.
C4_BuildNeverRaises == ~buildThrew

\* C5: every entry of courseIndex has a text that is not empty.
C5_NoEmptyText == \A i \in 1..Len(courseIndex) : courseIndex[i].text # <<>>

\* C6: a further call of buildFromCourse with the same tree leaves
\* courseIndex and courseToc as the call before left them.
C6_Idempotent ==
  [][builds >= 1 /\ builds' = builds + 1 =>
       courseIndex' = courseIndex /\ courseToc' = courseToc]_vars

\* the index of several entries was built a second time
C6_Witness == builds >= 2 /\ Len(courseIndex) >= 2 /\ Len(courseToc) >= 2

\* C7: answerFromCourse ends by returning an ok flag and a message and never
\* by throwing; it returns ok false when the index is empty, when the query
\* has no token and when no entry matches; it returns ok true only when an
\* entry was selected, by the objectives branch or by the scoring.
C7_AlwaysAResult ==
  Asked =>
    /\ ~res.threw
    /\ res.ok \in BOOLEAN
    /\ DOMAIN res.message = 1..Len(res.message)
    /\ Len(res.message) > 0
    /\ courseIndex = <<>> => ~res.ok
    /\ Len(tokenize(lastQuery)) = 0 => ~res.ok
    /\ (/\ Answered
        /\ ~objectivesHit(lastQuery, courseIndex)
        /\ Len(scored(lastQuery, courseIndex)) = 0) => ~res.ok
    /\ res.ok => /\ Answered
                 /\ \/ objectivesHit(lastQuery, courseIndex)
                    \/ Len(scored(lastQuery, courseIndex)) > 0

\* a question that no entry matches was answered with ok false
C7_Witness ==
  /\ Answered
  /\ Len(tokenize(lastQuery)) > 0
  /\ ~objectivesHit(lastQuery, courseIndex)
  /\ ~askInclusive(lastQuery)
  /\ Len(scored(lastQuery, courseIndex)) = 0
  /\ ~res.ok
  /\ ~res.threw

\* q has a token, and scoreMatch is 0 for every entry of the index
ZeroEverywhere(q, index) ==
  /\ Len(tokenize(q)) > 0
  /\ \A i \in 1..Len(index) : scoreMatch(tokenize(q), index[i].text).num = 0

\* the not-found message that lists the titles of the first four lessons
TitlesMessage(toc) ==
  NotFoundLead
    \o Join([i \in 1..Min({4, Len(toc)}) |-> toc[i].lessonTitle], <<",", " ">>)
    \o <<".">>

\* C8 as stated: a query that has a token and scores 0 against every entry
\* gets ok false and the not-found message with the titles of the first
\* min(4, n) lessons (the message with the default topics is let pass for
\* an empty table of contents).
C8_ZeroScoreNotFound ==
  (Answered /\ ZeroEverywhere(lastQuery, courseIndex)) =>
     \/ res = Result(FALSE, TitlesMessage(courseToc))
     \/ courseToc = <<>> /\ res = Result(FALSE, NotFoundLead \o DefaultTopics \o <<".">>)

\* some entry of the pool holds a defining verb
poolDefines(q, index) ==
  \E i \in 1..Len(pool(q, index)) :
     TestAny(toLowerCase(pool(q, index)[i].text), DefMarks)

\* C8, amended: a query that has a token and scores 0 against every entry
\* gets the objectives answer when it asks for objectives and the index
\* holds an objectives entry; else the inclusive-specific message when it
\* holds the word inclusive and no eligible entry does; else an ok true
\* answer when it is definitional and an entry of the pool holds a defining
\* verb; else ok false and the not-found message, which lists the titles of
\* the first min(4, n) lessons, or the two default topics when the table of
\* contents is empty.
C8_ZeroScoreOutcome ==
  (Answered /\ ZeroEverywhere(lastQuery, courseIndex)) =>
     IF objectivesHit(lastQuery, courseIndex)
     THEN /\ res.ok
          /\ SubSeq(res.message, 1, Len(ObjectivesLead)) = ObjectivesLead
     ELSE IF askInclusive(lastQuery) /\ inclusiveOnly(lastQuery, courseIndex) = <<>>
     THEN res = Result(FALSE, InclusiveNotFound)
     ELSE IF isDefinitional(lastQuery) /\ poolDefines(lastQuery, courseIndex)
     THEN /\ res.ok
          /\ SubSeq(res.message, 1, Len(AnswerLead)) = AnswerLead
     ELSE IF courseToc = <<>>
     THEN res = Result(FALSE, NotFoundLead \o DefaultTopics \o <<".">>)
     ELSE res = Result(FALSE, TitlesMessage(courseToc))

\* a query that scores 0 everywhere got the not-found message that lists
\* the first four of more than four lessons
C8_Witness ==
  /\ Answered
  /\ ZeroEverywhere(lastQuery, courseIndex)
  /\ Len(courseToc) > 4
  /\ res = Result(FALSE, TitlesMessage(courseToc))

\* C9: a query that holds the word inclusive, asked when no eligible entry
\* holds 'inclusive', gets ok false and the inclusive-specific message.
C9_InclusiveNotFound ==
  (/\ Answered
   /\ askInclusive(lastQuery)
   /\ inclusiveOnly(lastQuery, courseIndex) = <<>>) =>
     res = Result(FALSE, InclusiveNotFound)

\* the entry i of the pool p has the highest score, which is at least the
\* threshold, and every entry before it has a lower one
isBest(p, i, q) ==
  /\ RatGE(boosted(p[i], q), MIN_SCORE)
  /\ \A j \in 1..Len(p) : RatGE(boosted(p[i], q), boosted(p[j], q))
  /\ \A j \in 1..(i - 1) : ~RatGE(boosted(p[j], q), boosted(p[i], q))

\* C10: an answer of the scoring path is made of the text of one entry of
\* the pool: the one with the highest boosted score, which is at least
\* 0.35, and of those with that score the first in the order of the index.
C10_BestEntryOnly ==
  (Answered /\ res.ok /\ ~objectivesHit(lastQuery, courseIndex)) =>
     \E i \in 1..Len(pool(lastQuery, courseIndex)) :
        /\ isBest(pool(lastQuery, courseIndex), i, lastQuery)
        /\ res = Result(TRUE, answerMessage(pool(lastQuery, courseIndex)[i].text, lastQuery))

\* an answer of the scoring path was given when two entries of different
\* texts shared the highest score
C10_Witness ==
  /\ Answered
  /\ res.ok
  /\ ~objectivesHit(lastQuery, courseIndex)
  /\ \E i \in 1..Len(pool(lastQuery, courseIndex)) :
        /\ isBest(pool(lastQuery, courseIndex), i, lastQuery)
        /\ \E j \in (i + 1)..Len(pool(lastQuery, courseIndex)) :
              /\ RatGE(boosted(pool(lastQuery, courseIndex)[j], lastQuery),
                       boosted(pool(lastQuery, courseIndex)[i], lastQuery))
              /\ pool(lastQuery, courseIndex)[j].text # pool(lastQuery, courseIndex)[i].text


\* the quiz items of the index
isQuizEntry(e) == e.type = "question" \/ e.type = "answer"

\* the query holds one of the words that ask for examples
mentionsExamples(q) ==
  \E w \in {<<"e","x","a","m","p","l","e">>, <<"q","u","i","z">>, <<"q","u","e","s","t","i","o","n">>, <<"p","r","a","c","t","i","c","e">>} : Includes(toLowerCase(q), w)

\* the message of res is an answer made of the text of the entry e
answeredFrom(e, q) ==
  \/ res.message = ObjectivesLead \o simplifyForAnswer(e.text, "objectives")
  \/ res.message = answerMessage(e.text, q)

\* C11: an ok true answer to a query that holds none of the words example,
\* quiz, question and practice is made of the text of an entry that is no
\* question and no answer, whether the objectives branch or the scoring gave
\* it; a query that holds one of these words has every entry eligible.
C11_QuizExclusion ==
  Answered =>
    /\ (res.ok /\ ~mentionsExamples(lastQuery)) =>
          \E i \in 1..Len(courseIndex) :
             ~isQuizEntry(courseIndex[i]) /\ answeredFrom(courseIndex[i], lastQuery)
    /\ mentionsExamples(lastQuery) => eligible(lastQuery, courseIndex) = courseIndex
    /\ ~mentionsExamples(lastQuery) =>
          eligible(lastQuery, courseIndex) = SelectSeq(courseIndex, LAMBDA e : ~isQuizEntry(e))

\* a query that holds the word practice was answered with the text of an
\* answer of the quiz, which no other entry holds
C11_Witness ==
  /\ Answered
  /\ res.ok
  /\ mentionsExamples(lastQuery)
  /\ \E i \in 1..Len(courseIndex) :
        /\ courseIndex[i].type = "answer"
        /\ res.message = answerMessage(courseIndex[i].text, lastQuery)
  /\ \A i \in 1..Len(courseIndex) :
        ~isQuizEntry(courseIndex[i]) => ~answeredFrom(courseIndex[i], lastQuery)

\* a call made on its own has returned
Returned == out # Idle

\* the index that buildFromCourse makes of the one paragraph of the call
paragraphIndex == buildFromCourse(OneItemCourse(Obj([paragraph |-> Str(arg.text)])), <<>>, <<>>).index

\* one of the verbs Recognise, Apply and Use starts as a word at position i
\* of t, a space follows it, and a clause of at least one character that
\* '.', '!' or '?' ends follows the space
verbLedAt(t, i) ==
  /\ i = 1 \/ ~IsLetter(t[i - 1])
  /\ \E v \in {<<"r","e","c","o","g","n","i","s","e">>, <<"a","p","p","l","y">>, <<"u","s","e">>} :
        /\ LitAt(toLowerCase(t), i, v)
        /\ i + Len(v) <= Len(t)
        /\ t[i + Len(v)] = " "
        /\ \E e \in (i + Len(v) + 2)..Len(t) : IsTerminal(t[e])

\* the position of the first of '.', '!' and '?' from i on
clauseEnd(t, i) == Min({e \in i..Len(t) : IsTerminal(t[e])})

\* the verb-led clauses of t in the order of the text; a verb inside the
\* clause of an earlier verb starts no clause of its own
verbLedClauses(t) ==
  Let(SelectSeq(Idx(t), LAMBDA i :
        /\ verbLedAt(t, i)
        /\ \A j \in 1..(i - 1) : verbLedAt(t, j) => \E e \in j..(i - 1) : IsTerminal(t[e])),
      LAMBDA starts : [k \in 1..Len(starts) |-> SubSeq(t, starts[k], clauseEnd(t, starts[k]))])

\* the lines of a bulleted list of the first three clauses
bulletLines(clauses) ==
  [k \in 1..Min({3, Len(clauses)}) |-> <<Bullet, " ">> \o cleanText(clauses[k])]

\* the line is a bullet, a space, a capital letter, and ends with '.', '?' or '!'
isBulletLine(line) ==
  /\ Len(line) >= 4
  /\ line[1] = Bullet /\ line[2] = " "
  /\ IsUpper(line[3])
  /\ IsTerminal(line[Len(line)])

ExampleObjectives ==
  <<"A","t"," ","t","h","e"," ","e","n","d"," ","o","f"," ","t","h","e"," ","c","o","u","r","s","e",","," ","y","o","u"," ","w","i","l","l",":"," ","R","e","c","o","g","n","i","s","e"," ","i","n","c","l","u","s","i","v","e"," ","t","e","r","m","s","."," ","A","p","p","l","y"," ","p","l","a","i","n"," ","l","a","n","g","u","a","g","e","."," ","U","s","e"," ","s","h","o","r","t"," ","s","e","n","t","e","n","c","e","s",".">>

\* C12: the answer of the objectives branch is the lead-in and a list of one
\* to three bulleted lines, which are the first three verb-led clauses of the
\* entry in the order of its text, each starting with a capital letter and
\* ending with '.', '?' or '!'; the example paragraph gives three bullets.
C12_ObjectivesBullets ==
  (Returned /\ objectivesHit(arg.q, paragraphIndex)) =>
     /\ Len(verbLedClauses(arg.text)) >= 1
     /\ \A k \in 1..Len(bulletLines(verbLedClauses(arg.text))) :
           isBulletLine(bulletLines(verbLedClauses(arg.text))[k])
     /\ out = Result(TRUE, ObjectivesLead \o Join(bulletLines(verbLedClauses(arg.text)), <<"\n">>))
     /\ arg.text = ExampleObjectives =>
           out.message = ObjectivesLead
              \o <<Bullet," ","R","e","c","o","g","n","i","s","e"," ","i","n","c","l","u","s","i","v","e"," ","t","e","r","m","s",".","\n",Bullet," ","A","p","p","l","y"," ","p","l","a","i","n"," ","l","a","n","g","u","a","g","e",".","\n",Bullet," ","U","s","e"," ","s","h","o","r","t"," ","s","e","n","t","e","n","c","e","s",".">>

\* the part of C12 about the example paragraph
C12_ExampleBullets ==
  (Returned /\ arg.text = ExampleObjectives) =>
     out = Result(TRUE, ObjectivesLead
              \o <<Bullet," ","R","e","c","o","g","n","i","s","e"," ","i","n","c","l","u","s","i","v","e"," ","t","e","r","m","s",".","\n",Bullet," ","A","p","p","l","y"," ","p","l","a","i","n"," ","l","a","n","g","u","a","g","e",".","\n",Bullet," ","U","s","e"," ","s","h","o","r","t"," ","s","e","n","t","e","n","c","e","s",".">>)

\* the sentences of s: each ends where '.', '?' or '!' is followed by a space
\* or a line break, or where s ends
sentencesOf(s) ==
  Let(SelectSeq(Idx(s), LAMBDA i : i = 1 \/ (i >= 3 /\ IsSpace(s[i - 1]) /\ IsTerminal(s[i - 2]))),
      LAMBDA starts : {SubSeq(s, starts[k], IF k = Len(starts) THEN Len(s) ELSE starts[k + 1] - 1)
                         : k \in 1..Len(starts)})

\* the sentence or the query names the term, in any case of letters
mentions(s, term) == Includes(toLowerCase(s), term)

\* the query names the term and not the other one, the paragraph has a
\* sentence that mentions the term, and so has every sentence of the answer
focusedOn(term, other) ==
  (/\ mentions(arg.q, term)
   /\ ~mentions(arg.q, other)
   /\ \E s \in sentencesOf(arg.text) : mentions(s, term))
  => /\ out.ok
     /\ \A s \in sentencesOf(out.message) : mentions(s, term)

\* C13: when the query names passive voice and not active voice, or the
\* reverse, and the entry has a sentence that mentions the named term, every
\* sentence of the answer mentions that term, so none mentions the other term
\* only; when the query names both terms no focus is set.
C13_FocusFilter ==
  (Returned /\ arg.fn = "focus") =>
     /\ focusedOn(<<"p","a","s","s","i","v","e"," ","v","o","i","c","e">>, <<"a","c","t","i","v","e"," ","v","o","i","c","e">>)
     /\ focusedOn(<<"a","c","t","i","v","e"," ","v","o","i","c","e">>, <<"p","a","s","s","i","v","e"," ","v","o","i","c","e">>)
     /\ (mentions(arg.q, <<"p","a","s","s","i","v","e"," ","v","o","i","c","e">>) /\ mentions(arg.q, <<"a","c","t","i","v","e"," ","v","o","i","c","e">>))
           => focusTerm(arg.q) = ""

\* the positions of the query tokens of the call that a word of the text equals
exactAt == {i \in 1..Len(arg.queryTokens) : arg.queryTokens[i] \in Range(tokenize(arg.text))}

\* the positions of the query tokens of the call that no word of the text
\* equals and that a word of three or more characters of the text contains
partialAt ==
  {i \in 1..Len(arg.queryTokens) :
     /\ i \notin exactAt
     /\ \E w \in Range(tokenize(arg.text)) : Len(w) >= 3 /\ Includes(w, arg.queryTokens[i])}

\* the positions of the query tokens of the call that no word of the text
\* equals or contains and that contain a shorter word of the text
containsWordAt ==
  {i \in 1..Len(arg.queryTokens) :
     /\ i \notin exactAt
     /\ i \notin partialAt
     /\ \E w \in Range(tokenize(arg.text)) : Len(w) >= 3 /\ Includes(arg.queryTokens[i], w)}

\* C14: scoreMatch returns a number from 0 to 1 for a sequence of tokens that
\* is not empty, and 0 for the empty sequence.
C14_ScoreRange ==
  (Returned /\ arg.fn = "scoreMatch") =>
     /\ out.den > 0
     /\ 0 <= out.num /\ out.num <= out.den
     /\ arg.queryTokens = <<>> => out.num = 0

\* scoreMatch returned a number strictly between 0 and 1
C14_Witness ==
  /\ Returned /\ arg.fn = "scoreMatch"
  /\ arg.queryTokens # <<>>
  /\ 0 < out.num /\ out.num < out.den

\* C15: scoreMatch returns the sum of the credits of the query tokens divided
\* by their number: 1 for a token that a word of the text equals, 0.5 for a
\* token that a word of three or more characters of the text contains, and 0
\* for any other token, one that contains a shorter word of the text included.
C15_ScoreCredits ==
  (Returned /\ arg.fn = "scoreMatch" /\ arg.queryTokens # <<>>) =>
     out.num * 2 * Len(arg.queryTokens) = (2 * Cardinality(exactAt) + Cardinality(partialAt)) * out.den

\* scoreMatch returned 0.25 for two tokens: a word of the text contains the
\* one, and the other contains a word of the text
C15_Witness ==
  /\ Returned /\ arg.fn = "scoreMatch"
  /\ Len(arg.queryTokens) = 2
  /\ Cardinality(partialAt) = 1 /\ Cardinality(containsWordAt) = 1
  /\ out.num * 4 = out.den

\* the runs of word characters of s that no word character precedes or
\* follows, each as <<first, last>>
wordRuns(s) ==
  {r \in (1..Len(s)) \X (1..Len(s)) :
     /\ r[1] <= r[2]
     /\ \A i \in r[1]..r[2] : IsWord(s[i])
     /\ r[1] = 1 \/ ~IsWord(s[r[1] - 1])
     /\ r[2] = Len(s) \/ ~IsWord(s[r[2] + 1])}

\* the k-th run of s from the left
runNo(s, k) == CHOOSE r \in wordRuns(s) : Cardinality({p \in wordRuns(s) : p[1] < r[1]}) = k - 1

\* C16: tokenize returns the maximal runs of word characters of its input in
\* lower case and in the order of the text, none of them empty; null and the
\* empty string give the empty sequence, and 'Plain-Language!!' gives plain,
\* language.
C16_Tokens ==
  (Returned /\ arg.fn = "tokenize") =>
     /\ Len(out.tokens) = Cardinality(wordRuns(orEmptyString(arg.t)))
     /\ \A k \in 1..Len(out.tokens) :
           /\ out.tokens[k] # <<>>
           /\ out.tokens[k] = toLowerCase(SubSeq(orEmptyString(arg.t),
                                                  runNo(orEmptyString(arg.t), k)[1],
                                                  runNo(orEmptyString(arg.t), k)[2]))
     /\ arg.t \in {Null, Undef, Str(<<>>)} => out.tokens = <<>>
     /\ arg.t = Str(<<"P","l","a","i","n","-","L","a","n","g","u","a","g","e","!","!">>) => out.tokens = <<<<"p","l","a","i","n">>, <<"l","a","n","g","u","a","g","e">>>>

\* tokenize returned two tokens, one of them for a run with a capital letter
C16_Witness ==
  /\ Returned /\ arg.fn = "tokenize"
  /\ Len(out.tokens) = 2
  /\ \E i \in 1..Len(arg.t.s) : IsUpper(arg.t.s[i])

\* the answer that send() put on the page last
shownAnswer == aiMessages[Len(aiMessages)]

\* the phrases that run together in the paragraph of KeyPrinciplesCourse
KeyPhrases == {<<"S","h","o","r","t"," ","S","e","n","t","e","n","c","e","s">>, <<"A","c","t","i","v","e"," ","V","o","i","c","e">>, <<"F","a","m","i","l","i","a","r"," ","W","o","r","d","s">>}

\* the line is a bullet, a space and the phrase, with or without a full stop
bulletOf(line, phrase) ==
  line = <<Bullet, " ">> \o phrase \/ line = <<Bullet, " ">> \o phrase \o <<".">>

\* C17: a query that selects the paragraph 'Short SentencesActive
\* VoiceFamiliar Words' of the lesson Key Principles is answered with three
\* bulleted lines, one for each of the phrases, and not with one line; the
\* lines are those of the answer as send() shows it.
C17_RunTogetherBullets ==
  (Answered /\ data = KeyPrinciplesCourse /\ res.ok) =>
     /\ \A phrase \in KeyPhrases :
           \E k \in 1..Len(SplitOn(shownAnswer, "\n")) :
              bulletOf(SplitOn(shownAnswer, "\n")[k], phrase)
     /\ Cardinality({k \in 1..Len(SplitOn(shownAnswer, "\n")) :
                       SplitOn(shownAnswer, "\n")[k] # <<>>
                       /\ SplitOn(shownAnswer, "\n")[k][1] = Bullet}) = 3

\* the first text of the heading, the paragraph and the title of the item
\* that is not empty once the markup is stripped, <<>> if there is none
itemText(it) ==
  IF Nullish(it) THEN <<>>
  ELSE IF stripHtml(Get(it, "heading")) # <<>> THEN stripHtml(Get(it, "heading"))
  ELSE IF stripHtml(Get(it, "paragraph")) # <<>> THEN stripHtml(Get(it, "paragraph"))
  ELSE stripHtml(Get(it, "title"))

\* the texts of the items of the block that are not empty, in their order
blockTexts(block) ==
  IF ~IsArray(Get(block, "items")) THEN <<>>
  ELSE SelectSeq([k \in 1..Len(Get(block, "items").a) |-> itemText(Get(block, "items").a[k])],
                 LAMBDA t : t # <<>>)

\* the title is what the claim has for the block: the start of the first text
\* of the block that is not empty, of 80 characters at most, and Section for
\* a block without such a text
titleOfBlock(title, block) ==
  /\ title # <<>>
  /\ Len(title) <= 80
  /\ IF blockTexts(block) = <<>> THEN title = Section
     ELSE /\ Len(title) <= Len(blockTexts(block)[1])
          /\ title = SubSeq(blockTexts(block)[1], 1, Len(title))
          /\ Len(title) = Len(blockTexts(block)[1]) \/ Len(title) >= 60

\* C18: after a build that completed, the title of every block of the table
\* of contents is the first heading, paragraph or question text of the block
\* that is not empty, an item whose text strips to nothing being passed over,
\* cut to 80 characters at most; it is Section only for a block without such
\* a text, and it is never empty.
C18_BlockTitle ==
  (builds >= 1 /\ ~buildThrew) =>
     \A i \in 1..Len(courseToc) : \A j \in 1..Len(courseToc[i].blocks) :
        titleOfBlock(courseToc[i].blocks[j].title,
                     ItemsOf(lessonsOf(courseOf(data)).a[i]).a[j])

\* two calls with the same query and the same index returned the same result
sameAnswers ==
  \A i \in 1..Len(out.calls) : \A j \in 1..Len(out.calls) :
     (arg.qs[i] = arg.qs[j] /\ out.calls[i].builds = out.calls[j].builds)
        => (/\ out.calls[i].res.ok = out.calls[j].res.ok
            /\ out.calls[i].res.message = out.calls[j].res.message)

persisted == storageGet(localStorage, STORAGE_KEY)

openAt(s, i) ==
  Cardinality({j \in 1..i : s[j] = "("}) - Cardinality({j \in 1..(i - 1) : s[j] = ")"})

\* s without the characters that stand inside parentheses, a space for each
outsideOf(s) == [i \in 1..Len(s) |-> IF openAt(s, i) > 0 \/ s[i] = ")" THEN " " ELSE s[i]]

\* s without the characters that stand outside parentheses, a space for each
insideOf(s) == [i \in 1..Len(s) |-> IF openAt(s, i) > 0 /\ s[i] # "(" THEN s[i] ELSE " "]

\* the words of s that stand inside parentheses and nowhere outside
asideWords(s) == Range(tokenize(insideOf(s))) \ Range(tokenize(outsideOf(s)))

\* C24: the message of an ok true answer holds no '(' and no ')', and after
\* its lead-in none of the words that stand only inside parentheses in the
\* text of the entry, the nested ones and those of an unterminated
\* parenthetical at the end included.
C24_NoParentheticals ==
  (Returned /\ arg.fn = "asides" /\ out.ok) =>
     /\ \A i \in 1..Len(out.message) : out.message[i] \notin {"(", ")"}
     /\ Range(tokenize(SubSeq(out.message, Len(AnswerLead) + 1, Len(out.message))))
           \cap asideWords(arg.text) = {}

\* the value is an integer from 0 to the levels of the setting
inRange(key) ==
  /\ state[key].t = "number"
  /\ state[key].n \in 0..settingsConfig[key].levels

\* C26: whatever numbers loadSettings found in the storage and whatever
\* toggleSetting, setSetting and resetAll were called with, the value of every
\* setting is an integer from 0 to the levels of its configuration.
C26_LevelRange == \A key \in DOMAIN settingsConfig : inRange(key)

\* the level of the key after n toggles from the level v
afterToggles(key, v, n) ==
  IF settingsConfig[key].binary THEN (v + n) % 2 ELSE (v + n) % 3

\* C27: toggleSetting(k) for a setting k takes a setting with levels from 0
\* to 1, from 1 to 2 and from 2 to 0, and a binary one from 0 to 1 and from 1
\* to 0, so that levels + 1 calls give the level of the start; it leaves every
\* other setting as it was; toggleSetting with a key that is no setting
\* changes nothing and stores nothing.
C27_ToggleOnlyOne ==
  (arg.fn = "toggleSetting" /\ out.calls >= 1) =>
     IF arg.setting \in DOMAIN settingsConfig
     THEN /\ state[arg.setting] = Num(afterToggles(arg.setting, arg.state[arg.setting].n, out.calls))
          /\ \A key \in DOMAIN state : key # arg.setting => state[key] = arg.state[key]
          /\ out.calls = settingsConfig[arg.setting].levels + 1 => state = arg.state
          /\ storageGet(localStorage, STORAGE_KEY) = Obj(state)
     ELSE /\ state = arg.state
          /\ getItem(localStorage, STORAGE_KEY) = Null

\* a setting with levels was toggled three times from level 1, with another
\* setting above 0, and is at level 1 again
C27_Witness ==
  /\ arg.fn = "toggleSetting" /\ out.calls = 3
  /\ arg.setting = "contrast"
  /\ arg.state.contrast = Num(1) /\ arg.state.largeText = Num(2)
  /\ state = arg.state

\* C30: after handleNavitoirSubmit has processed a request that names a
\* setting with 'off', 'turn off' or 'disable' and no level, the level of
\* that setting is 0 and the reply reports it as off, whatever its level was
\* before (0, 1 or 2); no other setting is changed.
C30_OffTurnsOff ==
  (Returned /\ arg.fn = "handleNavitoirSubmit") =>
     \A r \in OffRequests : r.raw = arg.raw =>
        /\ state[r.key] = Num(0)
        /\ Includes(out.message, <<"o","f","f">>)
        /\ ~Includes(out.message, <<" ","o","n">>)
        /\ \A key \in DOMAIN state : key # r.key => state[key] = arg.state[key]

\* the event that was dispatched last
lastEvent(evs) == evs[Len(evs)]

\* C23: in the AI Assistant, after any sequence of clicks on the button, the
\* X, the backdrop and elsewhere and of presses of Escape, aria-expanded of
\* the button and the display of the modal agree with aiOpen; a click on the
\* X or the backdrop and Escape while the panel is open leave it closed; and
\* only a click on the button takes the panel from closed to open.
C23_PanelFollowsButton ==
  /\ [](aiBtn # "undefined" => (aiBtn = String(aiOpen) /\ aiModalRoot = flexIf(aiOpen)))
  /\ [][events' # events =>
          /\ (aiOpen /\ lastEvent(events').target \in {"closeBtn", "backdrop", "Escape"}) => ~aiOpen'
          /\ (~aiOpen /\ aiOpen') => lastEvent(events').target = "aiBtn"]_vars

\* the panel was opened by the button and closed by Escape, and Escape was
\* pressed again
C23_Witness ==
  /\ Len(events) = 3
  /\ events[1].target = "aiBtn" /\ events[2].target = "Escape" /\ events[3].target = "Escape"
  /\ ~aiOpen /\ aiBtn = "false" /\ aiModalRoot = "none"

\* C22: in the AI Assistant & Navitoir widget, the panel of Navitoir goes
\* from closed to open only as the direct effect of a click on its button,
\* in every interleaving of the events of the user with the timer of 500 ms
\* that toggles the panel after a request whose result has closePanel = true.
C22_OnlyButtonOpens ==
  [][(~navOpen /\ navOpen') => (events' # events /\ lastEvent(events').target = "navBtn")]_vars

\* C25: when the chip 'Open accessibility' is clicked while the accessibility
\* panel is hidden, then after the click has gone through every listener,
\* the one of the accessibility script on the document included, the panel
\* is shown and aria-expanded of its toggle is 'true'.
C25_ChipOpensPanel ==
  [][(events' # events /\ lastEvent(events').target = "chip"
        /\ lastEvent(events').value = <<"o","p","e","n"," ","a","c","c","e","s","s","i","b","i","l","i","t","y">>
        /\ panel = "hidden")
       => (panel' = "shown" /\ toggleBtn' = "true")]_vars

\* the number of times x is in seq
occurrences(seq, x) == Cardinality({i \in DOMAIN seq : seq[i] = x})

\* the announcement that names the level a call produced
namesLevel(call) == announcementOf(call.setting, call.state[call.setting])

\* C29: every toggleSetting call produces exactly one screen-reader
\* announcement, and that announcement names the level that this toggle
\* produced ('off' for 0, otherwise 'level n'), also when several toggles of
\* one setting are issued before the callbacks of the earlier ones have run:
\* once every callback has run after a burst of toggles, each message was
\* announced as many times as toggles produced the level it names.
C29_AnnouncesOwnLevel ==
  (frames = <<>> /\ \A i \in DOMAIN calls : calls[i].fn = "toggleSetting") =>
     /\ Len(announcements) = Len(calls)
     /\ \A i \in DOMAIN calls :
           occurrences(announcements, namesLevel(calls[i]))
             = Cardinality({j \in DOMAIN calls : namesLevel(calls[j]) = namesLevel(calls[i])})

\* the style that corresponds to level v: none at 0, else the one of v
styleFor(v) == IF aboveZero(v) /\ v.t = "number" THEN v.n ELSE 0

\* C28: after a burst of toggleSetting, setSetting and resetAll calls, once
\* every animation-frame callback and the timer of the debounce have fired,
\* the style elements and the filter of the app, the handler of text to
\* speech and the option buttons correspond to the final state: a style is
\* present iff its level is above 0 and is the one of that level, the
\* handler is set iff text to speech is above 0, aria-pressed is 'true' iff
\* the level is above 0 and the indicators show the level; and at no time
\* is more than one handler of text to speech registered.
C28_AppliedIsFinal ==
  /\ listeners <= 1
  /\ (frames = <<>> /\ ~timeoutSet) =>
        /\ \A key \in StyleKeys : styles[key] = styleFor(state[key])
        /\ textToSpeechHandler = aboveZero(state.textToSpeech)
        /\ (listeners = 1) = textToSpeechHandler
        /\ \A key \in DOMAIN state :
              /\ options[key].pressed = aboveZero(state[key])
              /\ options[key].level = state[key]

\* C21: after any sequence of re-renders of the lesson by the player and of
\* hash navigations, once the pending placement timers and animation-frame
\* callbacks have run, there is exactly one infographic section when the
\* Key Principles section is present, after Key Principles and immediately
\* before Using Short Sentences, and none when the Key Principles section
\* is absent; and at no time are two infographic sections in the document.
C21_OneInfographic ==
  /\ occurrences(sections, Infographic) <= 1
  /\ (placements = 0 /\ reconnects = 0 /\ ~scheduled) =>
        IF has(sections, KeySection)
        THEN /\ occurrences(sections, Infographic) = 1
             /\ indexOf(sections, KeySection) < indexOf(sections, Infographic)
             /\ has(sections, UsingSection) => nextSibling(sections, Infographic) = UsingSection
        ELSE ~has(sections, Infographic)
=============================================================================
